---- MODULE Spec2Model ----
(***************************************************************************)
(* Model of the notes app: the password-based note encryption              *)
(* (frontend/src/utils/cryptoNotes.ts), the canister that stores the notes *)
(* and the profiles (backend/main.mo), the note form with its text import *)
(* (NoteFormModal.tsx, utils/imageAttachments.ts), the note detail modal   *)
(* with its fullscreen preview (FullScreenImageModal.tsx), the sign-out of *)
(* the App (App.tsx) and the search of the dashboard (NotesDashboard.tsx,  *)
(* utils/noteSearch.ts).  Each part has its own specifications over its    *)
(* own variables; the others stay as Init leaves them.                     *)
(*                                                                         *)
(* JavaScript strings are sequences of UTF-16 code units (naturals);       *)
(* Uint8Arrays are sequences of bytes (0..255).  TextEncoder, TextDecoder, *)
(* btoa and atob are modelled by what the platform does with them.         *)
(* PBKDF2 and AES-GCM are Web Crypto primitives: the derived key is kept   *)
(* as the pair (HMAC key, salt) it is a function of, and AES-GCM is a      *)
(* keyed stream cipher followed by a 16-byte keyed tag over the            *)
(* ciphertext.                                                             *)
(***************************************************************************)
EXTENDS Integers, Sequences, FiniteSets, TLC

(***************************************************************************)
(* Bounds and input sets                                                   *)
(***************************************************************************)
\* calls that the interleaving specification keeps (in flight or finished)
MaxCalls == 2

\* note bodies: "", "hi", U+FEFF "h", U+1F600 (a surrogate pair)
Texts == { <<>>, <<104, 105>>, <<65279, 104>>, <<55357, 56832>> }

\* image buffers: empty, and the first three bytes of a PNG
Images == { <<>>, <<137, 80, 78>> }

\* passwords: "pw", "pw" followed by U+0000, a lone high and a lone low surrogate
Passwords == { <<112, 119>>, <<112, 119, 0>>, <<55296>>, <<56320>> }

\* a note body whose envelope has more bytes than one call takes arguments:
\* "aaaaaaa"
LongTexts == { <<97, 97, 97, 97, 97, 97, 97>> }

\* an image buffer of the same size
LongImages == { <<137, 80, 78, 71, 13, 10, 26>> }

\* the inputs of the calls that run concurrently
ConcurrentTexts == { <<104, 105>> }
ConcurrentImages == { <<137, 80, 78>> }
ConcurrentPasswords == { <<112, 119>>, <<55296>> }

(***************************************************************************)
(* Sequence helpers                                                        *)
(***************************************************************************)
Min(a, b) == IF a < b THEN a ELSE b

\* TypedArray.prototype.slice(from, to) with 0-based, end-exclusive offsets
Slice(s, from, to) ==
  LET a == Min(from, Len(s))
      b == Min(to, Len(s))
  IN IF b <= a THEN <<>> ELSE SubSeq(s, a + 1, b)

SliceFrom(s, from) == Slice(s, from, Len(s))

Pow2(k) == CASE k = 0 -> 1 [] k = 1 -> 2 [] k = 2 -> 4 [] k = 3 -> 8
             [] k = 4 -> 16 [] k = 5 -> 32 [] k = 6 -> 64 [] OTHER -> 128

\* the byte sequence with bit `bit` of the byte at 1-based position pos inverted
FlipBit(bytes, pos, bit) ==
  LET b == bytes[pos]
      f == IF (b \div Pow2(bit)) % 2 = 1 THEN b - Pow2(bit) ELSE b + Pow2(bit)
  IN [bytes EXCEPT ![pos] = f]

(***************************************************************************)
(* TextEncoder / TextDecoder (UTF-8)                                       *)
(***************************************************************************)
IsHighSurrogate(c) == c >= 55296 /\ c <= 56319
IsLowSurrogate(c) == c >= 56320 /\ c <= 57343

Utf8OfCodePoint(cp) ==
  IF cp < 128 THEN <<cp>>
  ELSE IF cp < 2048 THEN <<192 + (cp \div 64), 128 + (cp % 64)>>
  ELSE IF cp < 65536 THEN
    <<224 + (cp \div 4096), 128 + ((cp \div 64) % 64), 128 + (cp % 64)>>
  ELSE <<240 + (cp \div 262144), 128 + ((cp \div 4096) % 64),
         128 + ((cp \div 64) % 64), 128 + (cp % 64)>>

RECURSIVE Utf8EncodeFrom(_, _)
Utf8EncodeFrom(s, i) ==
  IF i > Len(s) THEN <<>>
  ELSE IF IsHighSurrogate(s[i]) /\ i < Len(s) /\ IsLowSurrogate(s[i + 1]) THEN
    Utf8OfCodePoint(65536 + (s[i] - 55296) * 1024 + (s[i + 1] - 56320))
      \o Utf8EncodeFrom(s, i + 2)
  ELSE IF IsHighSurrogate(s[i]) \/ IsLowSurrogate(s[i]) THEN
    \* an unpaired surrogate is replaced by U+FFFD
    Utf8OfCodePoint(65533) \o Utf8EncodeFrom(s, i + 1)
  ELSE Utf8OfCodePoint(s[i]) \o Utf8EncodeFrom(s, i + 1)

\* new TextEncoder().encode(s)
Utf8Encode(s) == Utf8EncodeFrom(s, 1)

RECURSIVE Utf8DecodeFrom(_, _), Utf8Continue(_, _, _, _, _, _)
\* the code points of the bytes from position i on (WHATWG UTF-8 decoder)
Utf8DecodeFrom(b, i) ==
  IF i > Len(b) THEN <<>>
  ELSE LET x == b[i] IN
    IF x <= 127 THEN <<x>> \o Utf8DecodeFrom(b, i + 1)
    ELSE IF x >= 194 /\ x <= 223 THEN Utf8Continue(b, i + 1, 1, x - 192, 128, 191)
    ELSE IF x >= 224 /\ x <= 239 THEN
      Utf8Continue(b, i + 1, 2, x - 224,
                   IF x = 224 THEN 160 ELSE 128, IF x = 237 THEN 159 ELSE 191)
    ELSE IF x >= 240 /\ x <= 244 THEN
      Utf8Continue(b, i + 1, 3, x - 240,
                   IF x = 240 THEN 144 ELSE 128, IF x = 244 THEN 143 ELSE 191)
    ELSE <<65533>> \o Utf8DecodeFrom(b, i + 1)

Utf8Continue(b, j, needed, cp, lower, upper) ==
  IF needed = 0 THEN <<cp>> \o Utf8DecodeFrom(b, j)
  ELSE IF j > Len(b) THEN <<65533>>
  ELSE IF b[j] < lower \/ b[j] > upper THEN <<65533>> \o Utf8DecodeFrom(b, j)
  ELSE Utf8Continue(b, j + 1, needed - 1, cp * 64 + (b[j] - 128), 128, 191)

RECURSIVE CodeUnitsFrom(_, _)
CodeUnitsFrom(cps, i) ==
  IF i > Len(cps) THEN <<>>
  ELSE IF cps[i] >= 65536 THEN
    <<55296 + ((cps[i] - 65536) \div 1024), 56320 + ((cps[i] - 65536) % 1024)>>
      \o CodeUnitsFrom(cps, i + 1)
  ELSE <<cps[i]>> \o CodeUnitsFrom(cps, i + 1)

\* new TextDecoder().decode(bytes): ignoreBOM is false, so a leading
\* byte order mark is consumed and is not part of the result
Utf8Decode(bytes) ==
  LET cps == Utf8DecodeFrom(bytes, 1)
  IN CodeUnitsFrom(IF Len(cps) > 0 /\ cps[1] = 65279 THEN Tail(cps) ELSE cps, 1)

(***************************************************************************)
(* btoa / atob (base64)                                                    *)
(***************************************************************************)
PadChar == 61

AsciiWhitespace == {9, 10, 12, 13, 32}

Base64Char(i) ==
  IF i < 26 THEN 65 + i
  ELSE IF i < 52 THEN 97 + (i - 26)
  ELSE IF i < 62 THEN 48 + (i - 52)
  ELSE IF i = 62 THEN 43 ELSE 47

Base64Alphabet == { Base64Char(i) : i \in 0..63 }

Base64Index(c) ==
  IF c >= 65 /\ c <= 90 THEN c - 65
  ELSE IF c >= 97 /\ c <= 122 THEN c - 97 + 26
  ELSE IF c >= 48 /\ c <= 57 THEN c - 48 + 52
  ELSE IF c = 43 THEN 62 ELSE 63

RECURSIVE BtoaFrom(_, _)
BtoaFrom(b, i) ==
  LET rem == Len(b) - i + 1 IN
  IF rem <= 0 THEN <<>>
  ELSE IF rem = 1 THEN
    <<Base64Char(b[i] \div 4), Base64Char((b[i] % 4) * 16), PadChar, PadChar>>
  ELSE IF rem = 2 THEN
    LET n == b[i] * 256 + b[i + 1]
    IN <<Base64Char(n \div 1024), Base64Char((n \div 16) % 64),
         Base64Char((n % 16) * 4), PadChar>>
  ELSE
    LET n == b[i] * 65536 + b[i + 1] * 256 + b[i + 2]
    IN <<Base64Char(n \div 262144), Base64Char((n \div 4096) % 64),
         Base64Char((n \div 64) % 64), Base64Char(n % 64)>>
       \o BtoaFrom(b, i + 3)

\* btoa(String.fromCharCode(...bytes))
Btoa(bytes) == BtoaFrom(bytes, 1)

RECURSIVE RemoveWhitespace(_)
RemoveWhitespace(s) ==
  IF s = <<>> THEN <<>>
  ELSE IF Head(s) \in AsciiWhitespace THEN RemoveWhitespace(Tail(s))
  ELSE <<Head(s)>> \o RemoveWhitespace(Tail(s))

StripPadding(s) ==
  IF Len(s) % 4 = 0 /\ Len(s) > 0 /\ s[Len(s)] = PadChar THEN
    IF s[Len(s) - 1] = PadChar THEN SubSeq(s, 1, Len(s) - 2)
    ELSE SubSeq(s, 1, Len(s) - 1)
  ELSE s

RECURSIVE Base64DecodeFrom(_, _)
Base64DecodeFrom(s, i) ==
  LET rem == Len(s) - i + 1 IN
  IF rem <= 1 THEN <<>>
  ELSE IF rem = 2 THEN
    <<(Base64Index(s[i]) * 64 + Base64Index(s[i + 1])) \div 16>>
  ELSE IF rem = 3 THEN
    LET n == Base64Index(s[i]) * 4096 + Base64Index(s[i + 1]) * 64
               + Base64Index(s[i + 2])
    IN <<n \div 1024, (n \div 4) % 256>>
  ELSE
    LET n == Base64Index(s[i]) * 262144 + Base64Index(s[i + 1]) * 4096
               + Base64Index(s[i + 2]) * 64 + Base64Index(s[i + 3])
    IN <<n \div 65536, (n \div 256) % 256, n % 256>>
       \o Base64DecodeFrom(s, i + 4)

RECURSIVE KeepBase64Chars(_)
KeepBase64Chars(s) ==
  IF s = <<>> THEN <<>>
  ELSE IF Head(s) \in Base64Alphabet \cup {PadChar}
    THEN <<Head(s)>> \o KeepBase64Chars(Tail(s))
  ELSE KeepBase64Chars(Tail(s))

\* a decoder that skips every character it does not know instead of failing
AtobSkippingUnknown(s) ==
  LET t == StripPadding(KeepBase64Chars(s)) IN
  IF Len(t) % 4 = 1 THEN [ok |-> FALSE, bytes |-> <<>>]
  ELSE [ok |-> TRUE, bytes |-> Base64DecodeFrom(t, 1)]

\* atob(s) followed by Uint8Array.from(.., c => c.charCodeAt(0)):
\* the forgiving-base64 decode of the HTML standard
Atob(s) ==
  LET t == StripPadding(RemoveWhitespace(s)) IN
  IF Len(t) % 4 = 1 \/ \E k \in 1..Len(t) : t[k] \notin Base64Alphabet
  THEN [ok |-> FALSE, bytes |-> <<>>]
  ELSE [ok |-> TRUE, bytes |-> Base64DecodeFrom(t, 1)]

(***************************************************************************)
(* crypto.getRandomValues                                                  *)
(***************************************************************************)
\* crypto.getRandomValues is a cryptographically secure source, taken as
\* ideal: it never returns a value it returned before.  Values are named by
\* seeds; the source returns one of the two smallest seeds not yet used.
Smallest(S) == CHOOSE x \in S : \A y \in S : x <= y

FreshSeeds(used) ==
  LET unused == (1..(Cardinality(used) + 2)) \ used
      first == Smallest(unused)
  IN {first, Smallest(unused \ {first})}

\* the n random bytes that the source returns for seed
RandomBytes(seed, n) == [i \in 1..n |-> (seed * 16 + i * 7) % 256]

(***************************************************************************)
(* crypto.subtle: PBKDF2 and AES-GCM                                       *)
(***************************************************************************)
NoKey == [material |-> <<>>, salt |-> <<>>]

RECURSIVE StripTrailingZeros(_)
StripTrailingZeros(b) ==
  IF Len(b) > 0 /\ b[Len(b)] = 0 THEN StripTrailingZeros(SubSeq(b, 1, Len(b) - 1))
  ELSE b

\* HMAC pads a key shorter than its 64-byte block with zero bytes, so keys
\* that differ only in trailing zero bytes are the same HMAC key
HmacKey(passwordBuffer) == StripTrailingZeros(passwordBuffer)

\* deriveKey(password, salt): PBKDF2-HMAC-SHA-256, 100000 iterations.
\* The key is a function of the HMAC key and the salt, and of nothing else.
deriveKey(password, salt) ==
  [material |-> HmacKey(Utf8Encode(password)), salt |-> salt]

RECURSIVE Mix(_, _, _, _)
\* a running checksum of s[i..] with multiplier m, modulo the prime 65521
Mix(s, i, h, m) ==
  IF i > Len(s) THEN h ELSE Mix(s, i + 1, (h * m + s[i] + 1) % 65521, m)

KeyAndIv(key, iv) == key.material \o <<256>> \o key.salt \o <<256>> \o iv

\* the i-th byte of the key stream of (key, iv), given the checksum of both
KeyStream(keyIvSum, i) == (keyIvSum + 131 * i) % 256

GcmTagLength == 16

\* the multipliers of the four checksums that make up the tag
TagLanes == <<31, 37, 41, 43>>

\* the 16-byte authentication tag of ciphertext ct under (key, iv): the two
\* bytes of each of four checksums over key, iv and ciphertext, twice
GcmTag(key, iv, ct) ==
  LET base == KeyAndIv(key, iv) \o <<256>> \o ct
      sums == <<Mix(base, 1, 1, TagLanes[1]), Mix(base, 1, 2, TagLanes[2]),
                Mix(base, 1, 3, TagLanes[3]), Mix(base, 1, 4, TagLanes[4])>>
  IN [j \in 1..GcmTagLength |->
        LET l == ((j - 1) % 8) \div 2 + 1
            digit == IF j % 2 = 1 THEN sums[l] \div 256 ELSE sums[l] % 256
        IN IF j <= 8 THEN digit ELSE (digit + 85) % 256]

\* crypto.subtle.encrypt({name: 'AES-GCM', iv}, key, data):
\* ciphertext of the length of data, followed by the tag
AesGcmEncrypt(key, iv, data) ==
  LET keyIvSum == Mix(KeyAndIv(key, iv), 1, 7, 31)
      ct == [i \in 1..Len(data) |-> (data[i] + KeyStream(keyIvSum, i)) % 256]
  IN ct \o GcmTag(key, iv, ct)

\* decryption by a cipher mode that has no authentication tag to verify
DecryptUnauthenticated(key, iv, data) ==
  IF Len(data) < GcmTagLength THEN [ok |-> FALSE, bytes |-> <<>>]
  ELSE
    LET n == Len(data) - GcmTagLength
        keyIvSum == Mix(KeyAndIv(key, iv), 1, 7, 31)
    IN [ok |-> TRUE,
        bytes |-> [i \in 1..n |-> (data[i] + 256 - KeyStream(keyIvSum, i)) % 256]]

\* crypto.subtle.decrypt({name: 'AES-GCM', iv}, key, data): rejects with an
\* OperationError unless data ends with the tag of its ciphertext
AesGcmDecrypt(key, iv, data) ==
  IF Len(data) < GcmTagLength THEN [ok |-> FALSE, bytes |-> <<>>]
  ELSE
    LET n == Len(data) - GcmTagLength
        ct == SubSeq(data, 1, n)
        tag == SubSeq(data, n + 1, Len(data))
        keyIvSum == Mix(KeyAndIv(key, iv), 1, 7, 31)
    IN IF tag # GcmTag(key, iv, ct) THEN [ok |-> FALSE, bytes |-> <<>>]
       ELSE [ok |-> TRUE,
             bytes |-> [i \in 1..n |-> (ct[i] + 256 - KeyStream(keyIvSum, i)) % 256]]

(***************************************************************************)
(* cryptoNotes.ts                                                          *)
(***************************************************************************)
SaltLength == 16
IvLength == 12

\* a copy that allocates the new buffer and never fills it
toConcreteUint8ArrayUnfilled(input) == [i \in 1..Len(input) |-> 0]

\* toConcreteUint8Array(input): the same bytes, over an ArrayBuffer
toConcreteUint8Array(input) == input

\* iv written before the salt
CombineIvFirst(salt, iv, encryptedData) == iv \o salt \o encryptedData

\* salt + iv + encrypted data in one buffer
Combine(salt, iv, encryptedData) ==
  LET total == Len(salt) + Len(iv) + Len(encryptedData)
  IN [k \in 1..total |->
        IF k <= Len(salt) THEN salt[k]
        ELSE IF k <= Len(salt) + Len(iv) THEN iv[k - Len(salt)]
        ELSE encryptedData[k - Len(salt) - Len(iv)]]

ExtractSalt(combined) == Slice(combined, 0, 16)
ExtractIv(combined) == Slice(combined, 16, 28)
ExtractData(combined) == SliceFrom(combined, 28)

ContentErrorMessage == "Decryption failed. Incorrect password or corrupted data."
ImageErrorMessage == "Image decryption failed. Incorrect password or corrupted data."

EncryptOps == {"encryptContent", "encryptImage"}
DecryptOps == {"decryptContent", "decryptImage"}

\* a catch block that returns an empty result instead of throwing
CatchErrorSwallowed(op, cause) == [status |-> "ok", error |-> ""]

\* a catch block that rethrows what it caught
CatchErrorRethrown(op, cause) == [status |-> "error", error |-> cause]

\* the catch blocks of decryptContent and decryptImage: whatever was thrown,
\* a new Error with the operation's fixed message is thrown instead
CatchError(op, cause) ==
  [status |-> "error",
   error |-> IF op = "decryptContent" THEN ContentErrorMessage ELSE ImageErrorMessage]

(***************************************************************************)
(* State                                                                   *)
(***************************************************************************)
\* calls:  the invocations of the four exported functions, in the order they
\*         were made; each record is the invocation's frame (its arguments,
\*         its locals, where it is suspended, and what it settled with)
\* drawn:  the seeds crypto.getRandomValues has returned so far
VARIABLES calls, drawn

\* The canister (backend/main.mo):
\* notesMap:    emptyNotesMap, a map from principals to maps from note ids to
\*              notes (a function whose domain is the principals that have a map)
\* nextNoteId:  the counter the ids are made from
\* now:         the time Time.now() last returned
\* reply:       the last call made to the canister and what it was answered
\* written:     for each (caller, note id), the data of the caller's last
\*              successful createNote or updateNote, until the caller deletes it
\* createdBy:   for each note id, the caller whose createNote returned it
\* userProfiles: the profile each caller has saved
VARIABLES notesMap, nextNoteId, now, reply, written, createdBy, userProfiles

\* form:        the state of a NoteFormModal (its props, its useState cells)
\* submitted:   the createNote / updateNote calls the form has made, each
\*              with the state of the form it was made from
VARIABLES form, submitted

\* detail:      the state of a NoteDetailModal and of the preview over it
VARIABLES detail

\* session:     the identity and the query cache of the App
VARIABLES session

\* dashboard:   the notes, the search box and the cards of the NotesDashboard
VARIABLES dashboard

cryptoVars == <<calls, drawn>>
backendVars == <<notesMap, nextNoteId, now, reply, written, createdBy, userProfiles>>
formVars == <<form, submitted>>
detailVars == <<detail>>
appVars == <<session, dashboard>>

vars == <<calls, drawn, notesMap, nextNoteId, now, reply, written, createdBy,
          userProfiles, form, submitted, detail, session, dashboard>>

NoMutation == [kind |-> "none", pos |-> 0, arg |-> 0]

NewCall(op, input, password) ==
  [op |-> op, pc |-> "deriveKey", input |-> input, password |-> password,
   combined |-> <<>>, salt |-> <<>>, iv |-> <<>>, data |-> <<>>, key |-> NoKey,
   status |-> "pending", value |-> <<>>, error |-> "", cause |-> "",
   src |-> 0, mutation |-> NoMutation]

Finished(c) == c.pc = "done"

(***************************************************************************)
(* encryptContent / encryptImage                                           *)
(***************************************************************************)
\* a salt generated once for the module and used by every call
EncryptFrameSharedSalt(op, plain, password, saltSeed, ivSeed) ==
  [NewCall(op, plain, password) EXCEPT
     !.data = IF op = "encryptContent" THEN Utf8Encode(plain)
              ELSE toConcreteUint8Array(plain),
     !.salt = RandomBytes(1, SaltLength),
     !.iv = RandomBytes(ivSeed, IvLength)]

\* the call up to its first await: the plaintext bytes, a fresh salt and a
\* fresh iv (lines 42-49 and 97-100)
EncryptFrame(op, plain, password, saltSeed, ivSeed) ==
  [NewCall(op, plain, password) EXCEPT
     !.data = IF op = "encryptContent" THEN Utf8Encode(plain)
              ELSE toConcreteUint8Array(plain),
     !.salt = RandomBytes(saltSeed, SaltLength),
     !.iv = RandomBytes(ivSeed, IvLength)]

BeginEncrypt(op, plain, password) ==
  \E saltSeed \in FreshSeeds(drawn) :
    \E ivSeed \in {Smallest(FreshSeeds(drawn \cup {saltSeed}))} :
      /\ calls' = Append(calls, EncryptFrame(op, plain, password, saltSeed, ivSeed))
      /\ drawn' = drawn \cup {saltSeed, ivSeed}
      /\ UNCHANGED <<backendVars, formVars, detailVars, appVars>>

\* String.fromCharCode(...combined) on line 64 passes every byte of the
\* envelope as one argument of a single call.  An engine takes a limited
\* number of arguments (65,535 in JavaScriptCore, about 120,000 in V8) and
\* throws a RangeError beyond it; the limit is scaled to the bodies above.
MaxArguments == 50

\* what encryptContent / encryptImage settle with (lines 51-64 and 105-116);
\* encryptContent has no catch block, so the RangeError is what it rejects with
EncryptResult(c) ==
  LET encryptedData == AesGcmEncrypt(c.key, c.iv, c.data)
      combined == Combine(c.salt, c.iv, encryptedData)
  IN IF c.op = "encryptContent" /\ Len(combined) > MaxArguments
     THEN [c EXCEPT !.pc = "done", !.status = "error", !.combined = combined,
                    !.error = "RangeError", !.cause = "RangeError"]
     ELSE [c EXCEPT !.pc = "done", !.status = "ok", !.combined = combined,
                    !.value = IF c.op = "encryptContent" THEN Btoa(combined)
                              ELSE combined]

(***************************************************************************)
(* decryptContent / decryptImage                                           *)
(***************************************************************************)
\* a rejected call: the catch block replaces whatever was thrown
Rejected(c, cause) ==
  LET e == CatchError(c.op, cause)
  IN [c EXCEPT !.pc = "done", !.status = e.status, !.error = e.error,
               !.cause = cause]

\* the call up to its first await (lines 68-77 and 125-130)
DecryptFrame(op, input, password, src, mutation) ==
  LET c == [NewCall(op, input, password) EXCEPT !.src = src, !.mutation = mutation]
      decoded == IF op = "decryptContent" THEN Atob(input)
                 ELSE [ok |-> TRUE, bytes |-> input]
  IN IF ~decoded.ok THEN Rejected(c, "InvalidCharacterError")
     ELSE [c EXCEPT !.combined = decoded.bytes,
                    !.salt = ExtractSalt(decoded.bytes),
                    !.iv = ExtractIv(decoded.bytes),
                    !.data = IF op = "decryptContent" THEN ExtractData(decoded.bytes)
                             ELSE toConcreteUint8Array(ExtractData(decoded.bytes))]

\* what decryptContent / decryptImage settle with (lines 79-89 and 132-141)
DecryptResult(c) ==
  LET decryptedData == AesGcmDecrypt(c.key, c.iv, c.data)
  IN IF ~decryptedData.ok THEN Rejected(c, "OperationError")
     ELSE [c EXCEPT !.pc = "done", !.status = "ok",
                    !.value = IF c.op = "decryptContent"
                              THEN Utf8Decode(decryptedData.bytes)
                              ELSE decryptedData.bytes]

(***************************************************************************)
(* Resumption of a suspended call                                          *)
(***************************************************************************)
\* a module-level key cache: the first key that was derived serves every call
KeyDerivedCached(i) ==
  /\ i \in 1..Len(calls)
  /\ calls[i].pc = "deriveKey"
  /\ LET holders == { j \in 1..Len(calls) : calls[j].key # NoKey }
     IN calls' = [calls EXCEPT ![i] = [calls[i] EXCEPT
                    !.key = IF holders = {}
                            THEN deriveKey(calls[i].password, calls[i].salt)
                            ELSE calls[Smallest(holders)].key,
                    !.pc = "cipher"]]
  /\ UNCHANGED <<drawn, backendVars, formVars, detailVars, appVars>>

\* await deriveKey(password, salt) resolves; the cipher operation is started
KeyDerived(i) ==
  /\ i \in 1..Len(calls)
  /\ calls[i].pc = "deriveKey"
  /\ calls' = [calls EXCEPT ![i] = [calls[i] EXCEPT
                  !.key = deriveKey(calls[i].password, calls[i].salt),
                  !.pc = "cipher"]]
  /\ UNCHANGED <<drawn, backendVars, formVars, detailVars, appVars>>

\* await crypto.subtle.encrypt / decrypt settles; the call returns or throws
CipherDone(i) ==
  /\ i \in 1..Len(calls)
  /\ calls[i].pc = "cipher"
  /\ calls' = [calls EXCEPT ![i] = IF calls[i].op \in EncryptOps
                                   THEN EncryptResult(calls[i])
                                   ELSE DecryptResult(calls[i])]
  /\ UNCHANGED <<drawn, backendVars, formVars, detailVars, appVars>>

(***************************************************************************)
(* Inputs of decrypt: envelopes as stored, modified, cut or re-typed       *)
(***************************************************************************)
\* characters inserted into a text envelope: space, line feed, '!', U+20AC
InsertedChars == {32, 10, 33, 8364}

\* the bits that are changed: the eight bits of a byte
FlippedBits == 0..7

DecryptOpFor(e) == IF e.op = "encryptContent" THEN "decryptContent" ELSE "decryptImage"

InsertAt(s, pos, ch) == SubSeq(s, 1, pos) \o <<ch>> \o SubSeq(s, pos + 1, Len(s))

\* single-bit changes of every byte from offset 28 on and of the first and
\* last byte of salt and iv, every prefix shorter than the header, and, for
\* text envelopes, one character inserted at the start, after the first
\* character or at the end
MutationsOf(e) ==
  {NoMutation}
  \cup { [kind |-> "flip", pos |-> p, arg |-> b] :
           p \in 29..Len(e.combined), b \in FlippedBits }
  \cup { [kind |-> "flip", pos |-> p, arg |-> 0] : p \in {1, 16, 17, 28} }
  \cup { [kind |-> "truncate", pos |-> n, arg |-> 0] : n \in 0..27 }
  \cup IF e.op = "encryptContent"
       THEN { [kind |-> "insert", pos |-> p, arg |-> ch] :
                p \in {0, 1, Len(e.value)}, ch \in InsertedChars }
       ELSE {}

AsEnvelope(e, bytes) == IF e.op = "encryptContent" THEN Btoa(bytes) ELSE bytes

Mutated(e, m) ==
  CASE m.kind = "none" -> e.value
    [] m.kind = "flip" -> AsEnvelope(e, FlipBit(e.combined, m.pos, m.arg))
    [] m.kind = "truncate" -> AsEnvelope(e, Slice(e.combined, 0, m.pos))
    [] OTHER -> InsertAt(e.value, m.pos, m.arg)

IsEnvelope(c) == c.op \in EncryptOps /\ c.status = "ok"

\* decrypt is called with envelope src under mutation m; kept is what the
\* caller still holds of the earlier calls
BeginDecrypt(kept, src, m, password) ==
  /\ src \in 1..Len(kept)
  /\ IsEnvelope(kept[src])
  /\ m \in MutationsOf(kept[src])
  /\ calls' = Append(kept, DecryptFrame(DecryptOpFor(kept[src]),
                                        Mutated(kept[src], m), password, src, m))
  /\ UNCHANGED <<drawn, backendVars, formVars, detailVars, appVars>>

(***************************************************************************)
(* A call run on its own                                                   *)
(***************************************************************************)
\* the frame after its next await has settled
StepAlone(c) ==
  CASE c.pc = "deriveKey" ->
         [c EXCEPT !.key = deriveKey(c.password, c.salt), !.pc = "cipher"]
    [] c.pc = "cipher" ->
         IF c.op \in EncryptOps THEN EncryptResult(c) ELSE DecryptResult(c)
    [] OTHER -> c

\* the frame after the call has settled with nothing else running
RunAlone(c) == StepAlone(StepAlone(c))

(***************************************************************************)
(* The canister: per-caller note storage (backend/main.mo)                 *)
(***************************************************************************)
\* notes the canister creates before createNote is no longer called
MaxNotes == 2

\* the latest time Time.now() returns
MaxTime == 1

Principals == {"alice", "bob"}

\* NoteData values: an untitled empty note, and the plain text "hi" titled
\* "t" under a set encryption flag, with one image blob
NoteDatas ==
  { [title |-> <<>>, content |-> <<>>, encrypted |-> FALSE,
     imageRefs |-> <<>>],
    [title |-> <<116>>, content |-> <<104, 105>>, encrypted |-> TRUE,
     imageRefs |-> << <<137, 80, 78>> >>] }

NoData == [title |-> <<>>, content |-> <<>>, encrypted |-> FALSE, imageRefs |-> <<>>]

\* Nat.toText: the decimal digits, as code units
RECURSIVE toText(_)
toText(n) == IF n < 10 THEN <<48 + n>> ELSE toText(n \div 10) \o <<48 + (n % 10)>>

\* Text.compare(a, b) is #less
RECURSIVE TextLess(_, _)
TextLess(a, b) ==
  IF b = <<>> THEN FALSE
  ELSE IF a = <<>> THEN TRUE
  ELSE IF a[1] # b[1] THEN a[1] < b[1]
  ELSE TextLess(Tail(a), Tail(b))

\* Map.add and Map.remove
Put(map, key, value) ==
  [k \in DOMAIN map \cup {key} |-> IF k = key THEN value ELSE map[k]]

Remove(map, key) == [k \in DOMAIN map \ {key} |-> map[k]]

EmptyMap == [k \in {} |-> NoData]

\* the fields of a note that NoteData carries
DataOf(note) ==
  [title |-> note.title, content |-> note.content,
   encrypted |-> note.encrypted, imageRefs |-> note.imageRefs]

\* userNotes.values().toArray().sort(Note.compareByTimestamp): the values in
\* key order, then sorted by timestamp, notes of one timestamp staying in
\* key order
RECURSIVE SortedValues(_)
SortedValues(userNotes) ==
  IF DOMAIN userNotes = {} THEN <<>>
  ELSE LET first == CHOOSE k \in DOMAIN userNotes :
                      \A j \in DOMAIN userNotes \ {k} :
                        \/ userNotes[k].timestamp < userNotes[j].timestamp
                        \/ /\ userNotes[k].timestamp = userNotes[j].timestamp
                           /\ TextLess(k, j)
       IN <<userNotes[first]>> \o SortedValues(Remove(userNotes, first))

Returned(notes) == [status |-> "ok", error |-> "", value |-> notes]

Trapped(message) == [status |-> "trap", error |-> message, value |-> <<>>]

\* the answer of listNotes (lines 79-91); permitted is what
\* AccessControl.hasPermission(accessControlState, caller, #user) returned
listNotesReply(caller, permitted) ==
  IF ~permitted THEN Trapped("Unauthorized: Only authenticated users can list notes")
  ELSE IF caller \notin DOMAIN notesMap THEN Returned(<<>>)
  ELSE Returned(SortedValues(notesMap[caller]))

\* the answer of getNote (lines 93-107)
getNoteReply(caller, noteId, permitted) ==
  IF ~permitted THEN Trapped("Unauthorized: Only authenticated users can view notes")
  ELSE IF caller \notin DOMAIN notesMap THEN Trapped("Note does not exist")
  ELSE IF noteId \notin DOMAIN notesMap[caller] THEN Trapped("Note does not exist")
  ELSE Returned(<<notesMap[caller][noteId]>>)

\* the stable state of the actor (lines 50-52)
Stored == [notesMap |-> notesMap, userProfiles |-> userProfiles,
           nextNoteId |-> nextNoteId]

\* a call and its answer; permitted is what AccessControl.hasPermission
\* returned for the caller, before is the stable state the call arrived in
Call(method, caller, noteId, data, permitted, answer) ==
  [method |-> method, caller |-> caller, noteId |-> noteId, data |-> data,
   user |-> "", profile |-> <<>>, permitted |-> permitted, before |-> Stored,
   status |-> answer.status, error |-> answer.error, value |-> answer.value]

\* a call of one of the profile methods
ProfileCall(method, caller, user, profile, permitted, answer) ==
  [Call(method, caller, <<>>, NoData, permitted, answer)
     EXCEPT !.user = user, !.profile = profile]

NoReply ==
  [method |-> "", caller |-> "", noteId |-> <<>>, data |-> NoData,
   user |-> "", profile |-> <<>>, permitted |-> TRUE,
   before |-> [notesMap |-> <<>>, userProfiles |-> <<>>, nextNoteId |-> 0],
   status |-> "ok", error |-> "", value |-> <<>>]

\* a trap rolls the call back: nothing but the answer is left of it
Trap(method, caller, noteId, data, permitted, message) ==
  /\ reply' = Call(method, caller, noteId, data, permitted, Trapped(message))
  /\ UNCHANGED <<notesMap, nextNoteId, now, written, createdBy, userProfiles>>

listNotes(caller) ==
  \E permitted \in BOOLEAN :
    /\ reply' = Call("listNotes", caller, <<>>, NoData, permitted,
                     listNotesReply(caller, permitted))
    /\ UNCHANGED <<notesMap, nextNoteId, now, written, createdBy, userProfiles>>
    /\ UNCHANGED <<cryptoVars, formVars, detailVars, appVars>>

getNote(caller, noteId) ==
  \E permitted \in BOOLEAN :
    /\ reply' = Call("getNote", caller, noteId, NoData, permitted,
                     getNoteReply(caller, noteId, permitted))
    /\ UNCHANGED <<notesMap, nextNoteId, now, written, createdBy, userProfiles>>
    /\ UNCHANGED <<cryptoVars, formVars, detailVars, appVars>>

\* the note createNote builds from its argument (lines 114-123)
NewNote(noteId, data, timestamp) ==
  [id |-> noteId, title |-> data.title, content |-> data.content,
   encrypted |-> data.encrypted, timestamp |-> timestamp,
   imageRefs |-> data.imageRefs]

\* createNote (lines 109-139)
createNote(caller, data) ==
  /\ \E permitted \in BOOLEAN, time \in {now, Min(now + 1, MaxTime)} :
       IF ~permitted
       THEN Trap("createNote", caller, <<>>, data, FALSE,
                 "Unauthorized: Only authenticated users can create notes")
       ELSE LET noteId == toText(nextNoteId)
                note == NewNote(noteId, data, time)
                userNotes == IF caller \notin DOMAIN notesMap
                             THEN Put(EmptyMap, noteId, note)
                             ELSE Put(notesMap[caller], noteId, note)
            IN /\ nextNoteId' = nextNoteId + 1
               /\ now' = time
               /\ notesMap' = Put(notesMap, caller, userNotes)
               /\ reply' = Call("createNote", caller, <<>>, data, TRUE,
                                Returned(<<note>>))
               /\ written' = Put(written, <<caller, noteId>>, data)
               /\ createdBy' = Put(createdBy, noteId, caller)
               /\ UNCHANGED userProfiles
  /\ UNCHANGED <<cryptoVars, formVars, detailVars, appVars>>

\* only the title is taken from the argument
UpdatedNoteTitleOnly(existing, data) == [existing EXCEPT !.title = data.title]

\* the note updateNote stores (lines 155-163): id and timestamp are kept
UpdatedNote(existing, data) ==
  [existing EXCEPT !.title = data.title, !.content = data.content,
                   !.encrypted = data.encrypted, !.imageRefs = data.imageRefs]

\* looking the note up in the maps of all callers
updateNoteOfAnyone(caller, noteId, data) ==
  /\ \E permitted \in BOOLEAN :
       IF ~permitted
       THEN Trap("updateNote", caller, noteId, data, FALSE,
                 "Unauthorized: Only authenticated users can update notes")
       ELSE LET owners == { p \in DOMAIN notesMap : noteId \in DOMAIN notesMap[p] }
            IN IF owners = {}
               THEN Trap("updateNote", caller, noteId, data, TRUE, "Note does not exist")
               ELSE LET owner == CHOOSE p \in owners : TRUE
                        updatedNote == UpdatedNote(notesMap[owner][noteId], data)
                    IN /\ notesMap' = Put(notesMap, owner,
                                          Put(notesMap[owner], noteId, updatedNote))
                       /\ reply' = Call("updateNote", caller, noteId, data, TRUE,
                                        Returned(<<updatedNote>>))
                       /\ written' = Put(written, <<caller, noteId>>, data)
                       /\ UNCHANGED <<nextNoteId, now, createdBy, userProfiles>>
  /\ UNCHANGED <<cryptoVars, formVars, detailVars, appVars>>

\* updateNote (lines 141-168)
updateNote(caller, noteId, data) ==
  /\ \E permitted \in BOOLEAN :
       IF ~permitted
       THEN Trap("updateNote", caller, noteId, data, FALSE,
                 "Unauthorized: Only authenticated users can update notes")
       ELSE IF caller \notin DOMAIN notesMap
       THEN Trap("updateNote", caller, noteId, data, TRUE, "Note does not exist")
       ELSE IF noteId \notin DOMAIN notesMap[caller]
       THEN Trap("updateNote", caller, noteId, data, TRUE, "Note does not exist")
       ELSE LET userNotes == notesMap[caller]
                updatedNote == UpdatedNote(userNotes[noteId], data)
            IN /\ notesMap' = Put(notesMap, caller, Put(userNotes, noteId, updatedNote))
               /\ reply' = Call("updateNote", caller, noteId, data, TRUE,
                                Returned(<<updatedNote>>))
               /\ written' = Put(written, <<caller, noteId>>, data)
               /\ UNCHANGED <<nextNoteId, now, createdBy, userProfiles>>
  /\ UNCHANGED <<cryptoVars, formVars, detailVars, appVars>>

\* deleteNote (lines 170-183): removing an id the caller's map lacks is no error
deleteNote(caller, noteId) ==
  /\ \E permitted \in BOOLEAN :
       IF ~permitted
       THEN Trap("deleteNote", caller, noteId, NoData, FALSE,
                 "Unauthorized: Only authenticated users can delete notes")
       ELSE IF caller \notin DOMAIN notesMap
       THEN Trap("deleteNote", caller, noteId, NoData, TRUE, "Note does not exist")
       ELSE /\ notesMap' = Put(notesMap, caller, Remove(notesMap[caller], noteId))
            /\ reply' = Call("deleteNote", caller, noteId, NoData, TRUE, Returned(<<>>))
            /\ written' = Remove(written, <<caller, noteId>>)
            /\ UNCHANGED <<nextNoteId, now, createdBy, userProfiles>>
  /\ UNCHANGED <<cryptoVars, formVars, detailVars, appVars>>

\* the profiles callers save: the name "a"
Profiles == { [name |-> <<97>>] }

\* userProfiles.get(user) (lines 59 and 69): null is the empty sequence
ProfileOf(user) ==
  IF user \in DOMAIN userProfiles THEN <<userProfiles[user]>> ELSE <<>>

\* getCallerUserProfile (lines 55-60)
getCallerUserProfile(caller) ==
  \E permitted \in BOOLEAN :
    /\ reply' = ProfileCall("getCallerUserProfile", caller, "", <<>>, permitted,
                            IF ~permitted
                            THEN Trapped("Unauthorized: Only authenticated users can access profiles")
                            ELSE Returned(ProfileOf(caller)))
    /\ UNCHANGED <<notesMap, nextNoteId, now, written, createdBy, userProfiles>>
    /\ UNCHANGED <<cryptoVars, formVars, detailVars, appVars>>

\* getUserProfile (lines 62-70); isAdmin is what AccessControl.isAdmin
\* returned for the caller
getUserProfile(caller, user) ==
  \E permitted, isAdmin \in BOOLEAN :
    /\ reply' = ProfileCall("getUserProfile", caller, user, <<>>, permitted,
                            IF ~permitted
                            THEN Trapped("Unauthorized: Only authenticated users can view profiles")
                            ELSE IF caller # user /\ ~isAdmin
                            THEN Trapped("Unauthorized: Can only view your own profile")
                            ELSE Returned(ProfileOf(user)))
    /\ UNCHANGED <<notesMap, nextNoteId, now, written, createdBy, userProfiles>>
    /\ UNCHANGED <<cryptoVars, formVars, detailVars, appVars>>

\* the profile is stored whatever hasPermission returned
saveCallerUserProfileUnchecked(caller, profile) ==
  /\ \E permitted \in BOOLEAN :
       /\ userProfiles' = Put(userProfiles, caller, profile)
       /\ reply' = ProfileCall("saveCallerUserProfile", caller, "", <<profile>>,
                               permitted,
                               IF ~permitted
                               THEN Trapped("Unauthorized: Only authenticated users can save profiles")
                               ELSE Returned(<<>>))
       /\ UNCHANGED <<notesMap, nextNoteId, now, written, createdBy>>
  /\ UNCHANGED <<cryptoVars, formVars, detailVars, appVars>>

\* saveCallerUserProfile (lines 72-77)
saveCallerUserProfile(caller, profile) ==
  /\ \E permitted \in BOOLEAN :
       IF ~permitted
       THEN /\ reply' = ProfileCall("saveCallerUserProfile", caller, "", <<profile>>,
                                    FALSE,
                                    Trapped("Unauthorized: Only authenticated users can save profiles"))
            /\ UNCHANGED <<notesMap, nextNoteId, now, written, createdBy, userProfiles>>
       ELSE /\ userProfiles' = Put(userProfiles, caller, profile)
            /\ reply' = ProfileCall("saveCallerUserProfile", caller, "", <<profile>>,
                                    TRUE, Returned(<<>>))
            /\ UNCHANGED <<notesMap, nextNoteId, now, written, createdBy>>
  /\ UNCHANGED <<cryptoVars, formVars, detailVars, appVars>>

BackendInit ==
  /\ notesMap = [p \in {} |-> EmptyMap]
  /\ nextNoteId = 0
  /\ now = 0
  /\ reply = NoReply
  /\ written = [k \in {} |-> NoData]
  /\ createdBy = [k \in {} |-> ""]
  /\ userProfiles = [p \in {} |-> <<>>]

\* the ids the canister has handed out, and one it has not
NoteIds == { toText(n) : n \in 0..nextNoteId }

(***************************************************************************)
(* The note form (frontend/src/components/NoteFormModal.tsx)               *)
(***************************************************************************)
\* image files the user adds to one form
MaxNewImages == 1

\* createNote / updateNote calls one form makes
MaxSubmits == 1

\* String.prototype.trim removes WhiteSpace and LineTerminator code units
\* from both ends, U+FEFF among them
WhiteSpace == {9, 10, 11, 12, 13, 32, 160, 5760, 8232, 8233, 8239, 8287, 12288, 65279}
               \cup (8192..8202)

RECURSIVE TrimStart(_)
TrimStart(s) ==
  IF s # <<>> /\ s[1] \in WhiteSpace THEN TrimStart(Tail(s)) ELSE s

RECURSIVE TrimEnd(_)
TrimEnd(s) ==
  IF s # <<>> /\ s[Len(s)] \in WhiteSpace THEN TrimEnd(SubSeq(s, 1, Len(s) - 1)) ELSE s

Trim(s) == TrimEnd(TrimStart(s))

\* what the user types: titles "" and " t", bodies "" and "hi", passwords
\* "", "pw" and "x"; the file the user attaches starts like a GIF
FormTitles == { <<>>, <<32, 116>> }
FormContents == { <<>>, <<104, 105>> }
FormPasswords == { <<>>, <<112, 119>>, <<120>> }
NewFiles == { <<71, 73, 70>> }

\* the password and the images of the stored encrypted note
StoredPassword == <<112, 119>>
StoredImages == << <<137, 80, 78>>, <<71, 73, 70>> >>

\* the seeds of the random values that went into the stored note
StoredSeeds == <<11, 12, 13, 14, 15, 16>>

\* a call from its start to its end, with nothing else running
encryptContent(content, password, saltSeed, ivSeed) ==
  RunAlone(EncryptFrame("encryptContent", content, password, saltSeed, ivSeed))

encryptImage(imageBytes, password, saltSeed, ivSeed) ==
  RunAlone(EncryptFrame("encryptImage", imageBytes, password, saltSeed, ivSeed))

decryptContent(encryptedContent, password) ==
  RunAlone(DecryptFrame("decryptContent", encryptedContent, password, 0, NoMutation))

decryptImage(encryptedBytes, password) ==
  RunAlone(DecryptFrame("decryptImage", encryptedBytes, password, 0, NoMutation))

\* the note prop of a form that creates a note
NoNote ==
  [id |-> <<>>, title |-> <<>>, content |-> <<>>, encrypted |-> FALSE,
   timestamp |-> 0, imageRefs |-> <<>>]

\* a stored plain note with one image
PlainNote ==
  [id |-> <<48>>, title |-> <<116>>, content |-> <<104, 105>>, encrypted |-> FALSE,
   timestamp |-> 0, imageRefs |-> << <<137, 80, 78>> >>]

\* the plain note after it was saved with the encryption flag set and no
\* password in the form
FlaggedNote == [PlainNote EXCEPT !.encrypted = TRUE]

\* a stored note that was saved encrypted under StoredPassword, with two images
SecretNote ==
  [id |-> <<49>>, title |-> <<116>>,
   content |-> encryptContent(<<104, 105>>, StoredPassword,
                              StoredSeeds[1], StoredSeeds[2]).value,
   encrypted |-> TRUE, timestamp |-> 0,
   imageRefs |-> << encryptImage(StoredImages[1], StoredPassword,
                                 StoredSeeds[3], StoredSeeds[4]).value,
                    encryptImage(StoredImages[2], StoredPassword,
                                 StoredSeeds[5], StoredSeeds[6]).value >>]

\* the props of a form: none (create), a note opened from its card, or an
\* encrypted note handed over by the detail modal with what it decrypted
NoDecrypted == [given |-> FALSE, content |-> <<>>, images |-> <<>>, password |-> <<>>]

FormProps ==
  { [isEditing |-> FALSE, note |-> NoNote, decrypted |-> NoDecrypted],
    [isEditing |-> TRUE, note |-> PlainNote, decrypted |-> NoDecrypted],
    [isEditing |-> TRUE, note |-> SecretNote, decrypted |-> NoDecrypted],
    [isEditing |-> TRUE, note |-> SecretNote,
     decrypted |-> [given |-> TRUE, content |-> <<104, 105>>,
                    images |-> StoredImages, password |-> StoredPassword]] }

NoErrors ==
  [title |-> "", content |-> "", password |-> "", confirmPassword |-> "",
   decrypt |-> ""]

\* the useState cells as they are initialised (lines 48-68); origin and kept
\* record, for the images of the note being edited, which of them each
\* entry of decryptedExistingImages is and which the user has not removed;
\* decryptCall is the last decryptContent call of handleDecryptForEdit
\* the files offered to the text import: name, type and decoded text
TextFiles ==
  { [name |-> "n.txt", type |-> "text/plain", text |-> <<104, 105>>],
    [name |-> "n.txt", type |-> "", text |-> <<104, 105>>],
    [name |-> "n.txt", type |-> "text/plain", text |-> <<>>],
    [name |-> "n.log", type |-> "text/plain", text |-> <<104, 105>>],
    [name |-> "n.md", type |-> "text/markdown", text |-> <<104, 105>>],
    [name |-> "n.png", type |-> "image/png", text |-> <<104, 105>>],
    [name |-> "N.TXT", type |-> "", text |-> <<104, 105>>] }

\* String.prototype.endsWith
endsWith(str, searchString) ==
  /\ Len(str) >= Len(searchString)
  /\ SubSeq(str, Len(str) - Len(searchString) + 1, Len(str)) = searchString

Resolved(value) == [status |-> "ok", error |-> "", value |-> value]

Threw(message) == [status |-> "error", error |-> message, value |-> <<>>]

\* readTextFile (imageAttachments.ts lines 42-62); loaded tells whether the
\* FileReader fired onload rather than onerror
readTextFile(file, loaded) ==
  IF file.type # "text/plain" /\ ~endsWith(file.name, ".txt")
  THEN Threw("Invalid file type. Only .txt files are supported.")
  ELSE IF loaded /\ file.text # <<>> THEN Resolved(file.text)
  ELSE Threw("Failed to read file")

\* form.toast: the last text import, the toast it raised and the content of
\* the form before and after it
NoToast ==
  [file |-> [name |-> "", type |-> "", text |-> <<>>], kind |-> "none",
   message |-> "", before |-> <<>>, after |-> <<>>]

NewForm ==
  [mounted |-> FALSE, open |-> FALSE, isEditing |-> FALSE, note |-> NoNote,
   decrypted |-> NoDecrypted,
   title |-> <<>>, content |-> <<>>, isEncrypted |-> FALSE,
   password |-> <<>>, confirmPassword |-> <<>>,
   existingImages |-> <<>>, decryptedExistingImages |-> <<>>,
   newImageFiles |-> <<>>, errors |-> NoErrors,
   isDecrypted |-> FALSE, decryptPassword |-> <<>>,
   pc |-> "idle", origin |-> <<>>, kept |-> {},
   decryptCall |-> NewCall("", <<>>, <<>>), toast |-> NoToast]

FormInit ==
  /\ form = NewForm
  /\ submitted = <<>>

\* line 381 and line 385
showDecryptStep(f) == f.isEditing /\ f.note.encrypted /\ ~f.isDecrypted

isEditingDecryptedNote(f) == f.isEditing /\ f.note.encrypted /\ f.isDecrypted

\* the form is shown with its fields (not the password step)
Editable == form.open /\ ~showDecryptStep(form)

FormOnly == UNCHANGED <<cryptoVars, backendVars, submitted, detailVars, appVars>>

\* mounting and the effect on note (lines 80-117)
OpenForm(props) ==
  /\ ~form.mounted
  /\ LET base == [NewForm EXCEPT !.mounted = TRUE, !.open = TRUE,
                                 !.isEditing = props.isEditing,
                                 !.note = props.note, !.decrypted = props.decrypted,
                                 !.kept = 1..Len(props.note.imageRefs)]
     IN form' =
          IF ~props.isEditing THEN base
          ELSE IF props.note.encrypted /\ props.decrypted.given
          THEN [base EXCEPT !.title = props.note.title,
                            !.isEncrypted = TRUE,
                            !.content = props.decrypted.content,
                            !.isDecrypted = TRUE,
                            !.password = props.decrypted.password,
                            !.confirmPassword = props.decrypted.password,
                            !.decryptedExistingImages = props.decrypted.images,
                            !.origin = [i \in 1..Len(props.decrypted.images) |-> i]]
          ELSE IF ~props.note.encrypted
          THEN [base EXCEPT !.title = props.note.title,
                            !.isEncrypted = FALSE,
                            !.content = props.note.content,
                            !.existingImages = props.note.imageRefs]
          ELSE [base EXCEPT !.title = props.note.title,
                            !.isEncrypted = TRUE,
                            !.content = props.note.content]
  /\ FormOnly

\* the onChange handlers of the inputs (lines 432-435, 477-480, 623,
\* 635-638, 651-654, 408-411)
setTitle(value) ==
  /\ Editable
  /\ form' = [form EXCEPT !.title = value, !.errors.title = ""]
  /\ FormOnly

setContent(value) ==
  /\ Editable
  /\ form' = [form EXCEPT !.content = value, !.errors.content = ""]
  /\ FormOnly

setIsEncrypted(checked) ==
  /\ Editable
  /\ form' = [form EXCEPT !.isEncrypted = checked]
  /\ FormOnly

setPassword(value) ==
  /\ Editable /\ form.isEncrypted /\ ~form.isEditing
  /\ form' = [form EXCEPT !.password = value, !.errors.password = ""]
  /\ FormOnly

setConfirmPassword(value) ==
  /\ Editable /\ form.isEncrypted /\ ~form.isEditing
  /\ form' = [form EXCEPT !.confirmPassword = value, !.errors.confirmPassword = ""]
  /\ FormOnly

setDecryptPassword(value) ==
  /\ form.open /\ showDecryptStep(form)
  /\ form' = [form EXCEPT !.decryptPassword = value, !.errors = NoErrors]
  /\ FormOnly

\* handleTextFileImport (lines 259-270) with a file chosen
handleTextFileImport(file) ==
  /\ Editable /\ ~form.isEditing
  /\ \E loaded \in BOOLEAN :
       LET text == readTextFile(file, loaded)
       IN form' = IF text.status = "ok"
                  THEN [form EXCEPT !.content = text.value,
                                    !.toast = [file |-> file, kind |-> "success",
                                               message |-> "Text file imported successfully",
                                               before |-> form.content,
                                               after |-> text.value]]
                  ELSE [form EXCEPT !.toast = [file |-> file, kind |-> "error",
                                               message |-> text.error,
                                               before |-> form.content,
                                               after |-> form.content]]
  /\ FormOnly

\* handleImageSelect with one valid file (lines 213-237)
handleImageSelect(file) ==
  /\ Editable
  /\ Len(form.newImageFiles) < MaxNewImages
  /\ form' = [form EXCEPT !.newImageFiles = Append(@, file)]
  /\ FormOnly

\* prev.filter((_, i) => i !== index), index counted from 1
Without(list, index) ==
  SubSeq(list, 1, index - 1) \o SubSeq(list, index + 1, Len(list))

\* lines 239-245
handleRemoveNewImage(index) ==
  /\ Editable
  /\ index \in 1..Len(form.newImageFiles)
  /\ form' = [form EXCEPT !.newImageFiles = Without(@, index)]
  /\ FormOnly

\* lines 247-249
handleRemoveExistingImage(index) ==
  /\ Editable /\ ~isEditingDecryptedNote(form)
  /\ index \in 1..Len(form.existingImages)
  /\ form' = [form EXCEPT !.existingImages = Without(@, index)]
  /\ FormOnly

\* lines 251-257
handleRemoveDecryptedExistingImage(index) ==
  /\ Editable /\ isEditingDecryptedNote(form)
  /\ index \in 1..Len(form.decryptedExistingImages)
  /\ form' = [form EXCEPT !.decryptedExistingImages = Without(@, index),
                          !.origin = Without(@, index),
                          !.kept = @ \ {form.origin[index]}]
  /\ FormOnly

\* handleDecryptForEdit up to the image loop (lines 166-180); the state set
\* on lines 174-177 is rendered while the loop waits for the first image
handleDecryptForEdit ==
  /\ form.open /\ showDecryptStep(form) /\ form.pc = "idle"
  /\ IF form.decryptPassword = <<>>
     THEN form' = [form EXCEPT !.errors = [NoErrors EXCEPT
                                             !.decrypt = "Please enter a password"]]
     ELSE LET call == decryptContent(form.note.content, form.decryptPassword)
          IN IF call.status # "ok"
             THEN form' = [form EXCEPT !.decryptCall = call,
                                       !.errors = [NoErrors EXCEPT
                                                     !.decrypt = "Incorrect password"]]
             ELSE form' = [form EXCEPT
                             !.decryptCall = call,
                             !.content = call.value,
                             !.isDecrypted = TRUE,
                             !.password = form.decryptPassword,
                             !.confirmPassword = form.decryptPassword,
                             !.pc = IF Len(form.note.imageRefs) > 0
                                    THEN "images" ELSE "idle",
                             !.errors = IF Len(form.note.imageRefs) > 0
                                        THEN @ ELSE NoErrors]
  /\ FormOnly

\* the decryptImage calls of the loop over note.imageRefs (lines 184-186)
RECURSIVE DecryptEach(_, _)
DecryptEach(imageRefs, password) ==
  IF imageRefs = <<>> THEN <<>>
  ELSE <<decryptImage(Head(imageRefs), password)>>
       \o DecryptEach(Tail(imageRefs), password)

\* the image loop of handleDecryptForEdit (lines 181-210); fetched is
\* whether every imageRef.getBytes() resolved
ImagesDecrypted ==
  /\ form.open /\ form.pc = "images"
  /\ \E fetched \in BOOLEAN :
       LET decryptedBytes == DecryptEach(form.note.imageRefs, form.decryptPassword)
       IN IF fetched /\ \A i \in 1..Len(decryptedBytes) : decryptedBytes[i].status = "ok"
          THEN form' = [form EXCEPT
                          !.decryptedExistingImages =
                             [i \in 1..Len(decryptedBytes) |-> decryptedBytes[i].value],
                          !.origin = [i \in 1..Len(decryptedBytes) |-> i],
                          !.errors = NoErrors, !.pc = "idle"]
          ELSE form' = [form EXCEPT
                          !.errors = [NoErrors EXCEPT !.decrypt = "Incorrect password"],
                          !.pc = "idle"]
  /\ FormOnly

\* validateForm (lines 272-298): the errors it sets
validateForm(f) ==
  [title |-> IF Trim(f.title) = <<>> THEN "Title is required" ELSE "",
   content |-> IF Trim(f.content) = <<>> THEN "Content is required" ELSE "",
   password |-> IF f.isEncrypted /\ ~f.isEditing /\ f.password = <<>>
                THEN "Password is required for encryption" ELSE "",
   confirmPassword |-> IF f.isEncrypted /\ ~f.isEditing /\ f.password # f.confirmPassword
                       THEN "Passwords do not match" ELSE "",
   decrypt |-> IF f.isEditing /\ f.note.encrypted /\ ~f.isDecrypted
               THEN "You must decrypt the note before editing" ELSE ""]

\* the seeds of n random values drawn after those in used, smallest first
RECURSIVE Draw(_, _)
Draw(n, used) ==
  IF n = 0 THEN <<>>
  ELSE LET seed == Smallest(FreshSeeds(used))
       IN <<seed>> \o Draw(n - 1, used \cup {seed})

\* the images are encrypted under the password with an "x" appended
RECURSIVE EncryptEachOtherwise(_, _, _)
EncryptEachOtherwise(images, password, seeds) ==
  IF images = <<>> THEN <<>>
  ELSE <<encryptImage(Head(images), Append(password, 120), seeds[1], seeds[2])>>
       \o EncryptEachOtherwise(Tail(images), password, SubSeq(seeds, 3, Len(seeds)))

\* the encryptImage calls of a Promise.all over images (lines 320-338)
RECURSIVE EncryptEach(_, _, _)
EncryptEach(images, password, seeds) ==
  IF images = <<>> THEN <<>>
  ELSE <<encryptImage(Head(images), password, seeds[1], seeds[2])>>
       \o EncryptEach(Tail(images), password, SubSeq(seeds, 3, Len(seeds)))

\* handleSubmit (lines 300-378); actor is whether useActor has an actor,
\* accepted whether the canister call resolved
handleSubmit ==
  /\ form.open
  /\ Len(submitted) < MaxSubmits
  /\ LET newErrors == validateForm(form)
         encrypting == form.isEncrypted /\ form.password # <<>>
         images == form.decryptedExistingImages \o form.newImageFiles
         seeds == Draw(2 + 2 * Len(images), drawn)
         contentCall == encryptContent(form.content, form.password, seeds[1], seeds[2])
         imageCalls == EncryptEach(images, form.password, SubSeq(seeds, 3, Len(seeds)))
         made == <<contentCall>> \o imageCalls
         allImageBlobs ==
           IF encrypting
           THEN [i \in 1..Len(imageCalls) |-> imageCalls[i].value]
           ELSE form.existingImages \o form.newImageFiles
         noteData ==
           [title |-> Trim(form.title),
            content |-> IF encrypting THEN contentCall.value ELSE form.content,
            encrypted |-> form.isEncrypted,
            imageRefs |-> allImageBlobs]
     IN IF newErrors # NoErrors
        THEN /\ form' = [form EXCEPT !.errors = newErrors]
             /\ UNCHANGED <<cryptoVars, submitted>>
        ELSE \E actor \in BOOLEAN, accepted \in BOOLEAN :
               IF ~actor
               THEN /\ form' = [form EXCEPT !.errors = newErrors]
                    /\ UNCHANGED <<cryptoVars, submitted>>
               ELSE IF encrypting /\ \E i \in 1..Len(made) : made[i].status # "ok"
               THEN /\ form' = [form EXCEPT !.errors = newErrors]
                    /\ calls' = calls \o made
                    /\ drawn' = drawn \cup { seeds[i] : i \in 1..Len(seeds) }
                    /\ UNCHANGED submitted
               ELSE /\ form' = [form EXCEPT !.errors = newErrors,
                                            !.open = ~accepted,
                                            !.pc = IF accepted THEN "idle" ELSE @]
                    /\ calls' = IF encrypting THEN calls \o made ELSE calls
                    /\ drawn' = IF encrypting
                                THEN drawn \cup { seeds[i] : i \in 1..Len(seeds) }
                                ELSE drawn
                    /\ submitted' = Append(submitted,
                          [method |-> IF form.isEditing THEN "updateNote"
                                      ELSE "createNote",
                           noteId |-> form.note.id, data |-> noteData,
                           form |-> form])
  /\ UNCHANGED <<backendVars, detailVars, appVars>>

\* Cancel, or the dialog's close request (lines 388 and 677)
closeForm ==
  /\ form.open
  /\ form' = [form EXCEPT !.open = FALSE, !.pc = "idle"]
  /\ FormOnly

(***************************************************************************)
(* The note detail modal and the fullscreen preview                        *)
(* (frontend/src/components/FullScreenImageModal.tsx)                      *)
(***************************************************************************)
\* a useState cell holding null
Null == [isNull |-> TRUE, value |-> <<>>]

Some(value) == [isNull |-> FALSE, value |-> value]

\* no fullscreen preview: selectedImage is null
NoImage == 0

\* the useState cells as they are initialised (lines 110-116); an image URL
\* is the position of its image in the note; outcome, event and previewWas
\* record how the last handleDecrypt attempt ended, which event was handled
\* last and whether the preview was open when it arrived
NewDetail ==
  [mounted |-> FALSE, open |-> FALSE, note |-> NoNote,
   selectedImage |-> NoImage, decryptPassword |-> <<>>,
   decryptedContent |-> Null, decryptedImages |-> Null,
   decryptedImageUrls |-> <<>>, decryptError |-> "", isDecrypting |-> FALSE,
   outcome |-> "none", event |-> "", previewWas |-> FALSE]

DetailInit == detail = NewDetail

DetailOnly == UNCHANGED <<cryptoVars, backendVars, formVars, appVars>>

\* !decryptedContent (line 255): null and the empty string are falsy
NotDecrypted(d) == d.decryptedContent.isNull \/ d.decryptedContent.value = <<>>

\* the thumbnails the modal renders (lines 301-322 and 331-349)
Thumbnails(d) ==
  IF d.note.encrypted THEN d.decryptedImageUrls
  ELSE [i \in 1..Len(d.note.imageRefs) |-> i]

\* the dialog content takes pointer events (line 218)
Reachable == detail.open /\ detail.selectedImage = NoImage

Event(d, name) ==
  [d EXCEPT !.event = name, !.previewWas = (d.selectedImage # NoImage)]

\* the dashboard mounts the modal for a note (NotesDashboard.tsx line 169)
OpenDetail(note) ==
  /\ ~detail.mounted
  /\ detail' = [NewDetail EXCEPT !.mounted = TRUE, !.open = TRUE, !.note = note]
  /\ DetailOnly

\* the password input (lines 263-266)
setDetailPassword(value) ==
  /\ Reachable /\ detail.note.encrypted
  /\ NotDecrypted(detail) /\ ~detail.isDecrypting
  /\ detail' = [Event(detail, "input") EXCEPT !.decryptPassword = value,
                                              !.decryptError = "",
                                              !.outcome = "none"]
  /\ DetailOnly

\* handleDecrypt up to its first await (lines 140-151)
handleDecrypt ==
  /\ Reachable /\ detail.note.encrypted
  /\ NotDecrypted(detail) /\ ~detail.isDecrypting
  /\ detail' = IF detail.decryptPassword = <<>>
               THEN [Event(detail, "decrypt") EXCEPT
                       !.decryptError = "Please enter a password"]
               ELSE [Event(detail, "decrypt") EXCEPT
                       !.isDecrypting = TRUE, !.decryptError = "",
                       !.outcome = "pending"]
  /\ DetailOnly

\* the text and every image decrypt under the password
AllDecrypt(note, password) ==
  /\ decryptContent(note.content, password).status = "ok"
  /\ \A i \in 1..Len(note.imageRefs) :
       decryptImage(note.imageRefs[i], password).status = "ok"

\* the text is set as soon as it is decrypted and stays when an image fails
DecryptSettledKeepingText ==
  /\ detail.open /\ detail.isDecrypting
  /\ \E fetched \in BOOLEAN :
       LET note == detail.note
           password == detail.decryptPassword
           text == decryptContent(note.content, password)
       IN detail' =
            IF fetched /\ AllDecrypt(note, password)
            THEN [detail EXCEPT
                    !.decryptedContent = Some(text.value),
                    !.decryptedImages =
                       Some([i \in 1..Len(note.imageRefs) |->
                               decryptImage(note.imageRefs[i], password).value]),
                    !.decryptedImageUrls = [i \in 1..Len(note.imageRefs) |-> i],
                    !.decryptError = "", !.isDecrypting = FALSE, !.outcome = "ok"]
            ELSE [detail EXCEPT
                    !.decryptedContent = IF text.status = "ok" THEN Some(text.value)
                                         ELSE Null,
                    !.decryptError = "Incorrect password",
                    !.isDecrypting = FALSE, !.outcome = "failed"]
  /\ DetailOnly

\* the rest of handleDecrypt (lines 151-189); fetched is whether every
\* imageRef.getBytes() resolved
DecryptSettled ==
  /\ detail.open /\ detail.isDecrypting
  /\ \E fetched \in BOOLEAN :
       LET note == detail.note
           password == detail.decryptPassword
       IN detail' =
            IF fetched /\ AllDecrypt(note, password)
            THEN [detail EXCEPT
                    !.decryptedContent = Some(decryptContent(note.content, password).value),
                    !.decryptedImages =
                       Some([i \in 1..Len(note.imageRefs) |->
                               decryptImage(note.imageRefs[i], password).value]),
                    !.decryptedImageUrls = [i \in 1..Len(note.imageRefs) |-> i],
                    !.decryptError = "", !.isDecrypting = FALSE, !.outcome = "ok"]
            ELSE [detail EXCEPT
                    !.decryptedContent = Null, !.decryptedImages = Null,
                    !.decryptedImageUrls = <<>>,
                    !.decryptError = "Incorrect password",
                    !.isDecrypting = FALSE, !.outcome = "failed"]
  /\ DetailOnly

\* a thumbnail is clicked (lines 311 and 339)
selectImage(url) ==
  /\ Reachable
  /\ url \in 1..Len(Thumbnails(detail))
  /\ detail' = [Event(detail, "thumbnail") EXCEPT !.selectedImage = Thumbnails(detail)[url]]
  /\ DetailOnly

\* the onClose prop: the dashboard unmounts the modal
onClose(d) == [d EXCEPT !.open = FALSE, !.isDecrypting = FALSE]

\* closing on every request
handleDialogOpenChangeUnguarded(d, open) ==
  IF ~open THEN onClose(d) ELSE d

\* handleDialogOpenChange (lines 192-197)
handleDialogOpenChange(d, open) ==
  IF ~open /\ d.selectedImage = NoImage THEN onClose(d) ELSE d

\* the dialog asks to be closed or opened
DialogOpenChange(open) ==
  /\ detail.open
  /\ detail' = handleDialogOpenChange(Event(detail, IF open THEN "openRequest"
                                                    ELSE "closeRequest"), open)
  /\ DetailOnly

\* Escape is pressed.  While the preview is mounted its capture listener
\* (lines 12-22) sets selectedImage to null and stops the event; the dialog's
\* own listener was added earlier, so the dialog may have asked to be closed
\* just before.  Without a preview only the dialog handles the key.
handleEscape ==
  /\ detail.open
  /\ \E dialogFirst \in BOOLEAN :
       LET d == Event(detail, "escape")
       IN detail' =
            IF detail.selectedImage = NoImage
            THEN handleDialogOpenChange(d, FALSE)
            ELSE [(IF dialogFirst THEN handleDialogOpenChange(d, FALSE) ELSE d)
                    EXCEPT !.selectedImage = NoImage]
  /\ DetailOnly

\* the X button or the backdrop of the preview (lines 29-42)
handleCloseClick ==
  /\ detail.open /\ detail.selectedImage # NoImage
  /\ detail' = [Event(detail, "previewClose") EXCEPT !.selectedImage = NoImage]
  /\ DetailOnly

\* the Close button of the footer (line 363)
CloseButton ==
  /\ Reachable
  /\ detail' = onClose(Event(detail, "closeButton"))
  /\ DetailOnly

\* handleEditClick (lines 199-206): the dashboard replaces the modal by the form
handleEditClick ==
  /\ Reachable
  /\ detail' = onClose(Event(detail, "edit"))
  /\ DetailOnly

\* handleDelete (lines 128-138): confirmed, and the note was deleted, or not
handleDelete ==
  /\ Reachable
  /\ \E deleted \in BOOLEAN :
       detail' = IF deleted THEN onClose(Event(detail, "delete"))
                 ELSE Event(detail, "delete")
  /\ DetailOnly

(***************************************************************************)
(* Sign-in, the query cache and sign-out (src/frontend/src/App.tsx)        *)
(***************************************************************************)
\* no identity: the login screen is shown
NoIdentity == ""

\* the query keys of the hooks: ['notes'], ['note', id], the caller's profile
QueryKeys == {"notes", "note", "currentUserProfile"}

\* session.cache maps the keys that hold data to the principal the data was
\* fetched for; session.fetching are the keys with a fetch under way;
\* session.removed are the keys whose data the last sign-out took away
NewSession ==
  [identity |-> NoIdentity, cache |-> [k \in {} |-> ""], fetching |-> {},
   pc |-> "idle", removed |-> {}]

AppInit == session = NewSession

AppOnly == UNCHANGED <<cryptoVars, backendVars, formVars, detailVars, dashboard>>

\* Internet Identity returns an identity
login(principal) ==
  /\ session.identity = NoIdentity /\ session.pc = "idle"
  /\ session' = [session EXCEPT !.identity = principal]
  /\ AppOnly

\* a query of the dashboard starts to fetch
fetch(key) ==
  /\ session.identity # NoIdentity
  /\ key \notin session.fetching
  /\ session' = [session EXCEPT !.fetching = @ \cup {key}]
  /\ AppOnly

\* the canister's answer is put into the cache
fetched(key) ==
  /\ key \in session.fetching
  /\ session' = [session EXCEPT !.fetching = @ \ {key},
                                !.cache = Put(@, key, session.identity)]
  /\ AppOnly

\* Sign Out is clicked: handleLogout up to await clear() (line 24)
handleLogout ==
  /\ session.identity # NoIdentity /\ session.pc = "idle"
  /\ session' = [session EXCEPT !.pc = "clear"]
  /\ AppOnly

\* the identity is cleared and the cache is left as it is
LoggedOutKeepingCache ==
  /\ session.pc = "clear"
  /\ \E cleared \in BOOLEAN :
       session' = IF cleared
                  THEN [session EXCEPT !.identity = NoIdentity, !.fetching = {},
                                       !.pc = "idle"]
                  ELSE [session EXCEPT !.pc = "idle"]
  /\ AppOnly

\* clear() settles; when it resolved, the identity is gone and
\* queryClient.clear() removes every query, fetching ones included (line 25)
LoggedOut ==
  /\ session.pc = "clear"
  /\ \E cleared \in BOOLEAN :
       session' = IF cleared
                  THEN [session EXCEPT !.identity = NoIdentity,
                                       !.cache = [k \in {} |-> ""],
                                       !.removed = DOMAIN session.cache,
                                       !.fetching = {}, !.pc = "idle"]
                  ELSE [session EXCEPT !.pc = "idle"]
  /\ AppOnly

(***************************************************************************)
(* The dashboard's search (screens/NotesDashboard.tsx, utils/noteSearch.ts) *)
(***************************************************************************)
\* notes the dashboard lists at most
MaxListed == 2

\* the notes of the list: "A"; the Greek title "ΑΣ"; an encrypted note whose
\* stored content is "Qa"; the title "σ" over the content "b"
SearchNotes ==
  { [id |-> <<48>>, title |-> <<65>>, content |-> <<>>, encrypted |-> FALSE],
    [id |-> <<49>>, title |-> <<913, 931>>, content |-> <<>>, encrypted |-> FALSE],
    [id |-> <<50>>, title |-> <<>>, content |-> <<81, 97>>, encrypted |-> TRUE],
    [id |-> <<51>>, title |-> <<963>>, content |-> <<98>>, encrypted |-> FALSE] }

\* what is typed into the search box: nothing, a space, "a", "A", " a ",
\* "Σ", "σ", "ς", "q"
SearchQueries ==
  { <<>>, <<32>>, <<97>>, <<65>>, <<32, 97, 32>>, <<931>>, <<963>>, <<962>>,
    <<113>> }

\* the lists useListNotes delivers: each note at most once
NoteLists ==
  { list \in UNION { [1..n -> SearchNotes] : n \in 0..MaxListed } :
      \A i, j \in 1..Len(list) : i # j => list[i] # list[j] }

\* Unicode properties of the Basic Latin and Greek code units
Cased(c) ==
  c \in (65..90) \cup (97..122) \cup ((913..937) \ {930}) \cup (945..969)

CaseIgnorable(c) == c \in {39, 46, 58, 94, 96}

\* the lower case mapping of one code unit of Basic Latin or Greek
Lower(c) ==
  IF c \in (65..90) \cup ((913..937) \ {930}) THEN c + 32 ELSE c

\* the Final_Sigma condition of SpecialCasing.txt at position i
FinalSigma(str, i) ==
  /\ \E j \in 1..(i - 1) :
       Cased(str[j]) /\ \A k \in (j + 1)..(i - 1) : CaseIgnorable(str[k])
  /\ ~\E j \in (i + 1)..Len(str) :
        Cased(str[j]) /\ \A k \in (i + 1)..(j - 1) : CaseIgnorable(str[k])

\* String.prototype.toLowerCase: the Unicode default case conversion, in
\* which a capital sigma at the end of a word becomes "ς" and "σ" elsewhere
toLowerCase(str) ==
  [i \in 1..Len(str) |->
     IF str[i] = 931 /\ FinalSigma(str, i) THEN 962 ELSE Lower(str[i])]

\* String.prototype.includes
includes(str, searchString) ==
  \E i \in 0..(Len(str) - Len(searchString)) :
    SubSeq(str, i + 1, i + Len(searchString)) = searchString

\* filterNotes (noteSearch.ts lines 3-15)
filterNotes(notes, query) ==
  IF Trim(query) = <<>> THEN notes
  ELSE LET normalizedQuery == Trim(toLowerCase(query))
           matches(note) ==
             LET titleMatch == includes(toLowerCase(note.title), normalizedQuery)
                 contentMatch == includes(toLowerCase(note.content), normalizedQuery)
             IN titleMatch \/ contentMatch
       IN SelectSeq(notes, matches)

\* a render of the dashboard (NotesDashboard.tsx lines 17-24)
Rendered(notes, searchQuery) ==
  [notes |-> notes, searchQuery |-> searchQuery,
   filteredNotes |-> filterNotes(notes, searchQuery)]

DashboardInit == dashboard = Rendered(<<>>, <<>>)

DashboardOnly == UNCHANGED <<cryptoVars, backendVars, formVars, detailVars, session>>

\* useListNotes delivers the notes
notesLoaded(notes) ==
  /\ dashboard' = Rendered(notes, dashboard.searchQuery)
  /\ DashboardOnly

\* the search box changes (line 83)
setSearchQuery(value) ==
  /\ dashboard' = Rendered(dashboard.notes, value)
  /\ DashboardOnly

\* the clear control (lines 26-28)
handleClearSearch ==
  /\ dashboard.searchQuery # <<>>
  /\ dashboard' = Rendered(dashboard.notes, <<>>)
  /\ DashboardOnly

(***************************************************************************)
(* Specifications                                                          *)
(***************************************************************************)
\* nothing has been called, the canister is empty, no modal is open
Init ==
  /\ calls = <<>>
  /\ drawn = {}
  /\ BackendInit
  /\ FormInit
  /\ DetailInit
  /\ AppInit
  /\ DashboardInit

EncryptText(texts, passwords) ==
  \E p \in texts, w \in passwords : BeginEncrypt("encryptContent", p, w)

EncryptBytes(images, passwords) ==
  \E d \in images, w \in passwords : BeginEncrypt("encryptImage", d, w)

Resume == \E i \in 1..Len(calls) : KeyDerived(i) \/ CipherDone(i)

\* Spec: up to MaxCalls calls whose asynchronous steps interleave; decrypt is
\* given stored envelopes as they are
DecryptStored ==
  \E src \in 1..Len(calls), w \in ConcurrentPasswords :
    BeginDecrypt(calls, src, NoMutation, w)

Next ==
  \/ Len(calls) < MaxCalls /\ EncryptText(ConcurrentTexts, ConcurrentPasswords)
  \/ Len(calls) < MaxCalls /\ EncryptBytes(ConcurrentImages, ConcurrentPasswords)
  \/ Len(calls) < MaxCalls /\ DecryptStored
  \/ Resume

Spec == Init /\ [][Next]_vars

\* CodecSpec: one envelope, and one decrypt call on whatever can be made of it
DecryptAny ==
  /\ Len(calls) = 1
  /\ \E m \in MutationsOf(calls[1]), w \in Passwords : BeginDecrypt(calls, 1, m, w)

CodecNext ==
  \/ calls = <<>> /\ EncryptText(Texts, Passwords)
  \/ calls = <<>> /\ EncryptBytes(Images, Passwords)
  \/ DecryptAny
  \/ Resume

CodecSpec == Init /\ [][CodecNext]_vars

\* EncryptSpec: one encryption of a body or buffer of any of the sizes
EncryptNext ==
  \/ calls = <<>> /\ EncryptText(Texts \cup LongTexts, Passwords)
  \/ calls = <<>> /\ EncryptBytes(Images \cup LongImages, Passwords)
  \/ Resume

EncryptSpec == Init /\ [][EncryptNext]_vars

\* BackendSpec: the callers create, update, delete and read notes in any order
BackendNext ==
  \/ nextNoteId < MaxNotes /\ \E caller \in Principals, data \in NoteDatas :
                                createNote(caller, data)
  \/ \E caller \in Principals, noteId \in NoteIds, data \in NoteDatas :
       updateNote(caller, noteId, data)
  \/ \E caller \in Principals, noteId \in NoteIds : deleteNote(caller, noteId)
  \/ \E caller \in Principals, noteId \in NoteIds : getNote(caller, noteId)
  \/ \E caller \in Principals : listNotes(caller)

BackendSpec == Init /\ [][BackendNext]_vars

\* AuthSpec: the callers call every note and profile method in any order,
\* with or without the permission; the notes all carry the same data
AuthDatas == { data \in NoteDatas : data.encrypted }

AuthNext ==
  \/ nextNoteId < MaxNotes /\ \E caller \in Principals, data \in AuthDatas :
                                createNote(caller, data)
  \/ \E caller \in Principals, noteId \in NoteIds, data \in AuthDatas :
       updateNote(caller, noteId, data)
  \/ \E caller \in Principals, noteId \in NoteIds : deleteNote(caller, noteId)
  \/ \E caller \in Principals, noteId \in NoteIds : getNote(caller, noteId)
  \/ \E caller \in Principals : listNotes(caller)
  \/ \E caller \in Principals : getCallerUserProfile(caller)
  \/ \E caller, user \in Principals : getUserProfile(caller, user)
  \/ \E caller \in Principals, profile \in Profiles :
       saveCallerUserProfile(caller, profile)

AuthSpec == Init /\ [][AuthNext]_vars

\* FormSpec: one note form from mounting to its close
FormNext ==
  \/ \E props \in FormProps : OpenForm(props)
  \/ \E value \in FormTitles : setTitle(value)
  \/ \E value \in FormContents : setContent(value)
  \/ \E checked \in BOOLEAN : setIsEncrypted(checked)
  \/ \E value \in FormPasswords : setPassword(value)
  \/ \E value \in FormPasswords : setConfirmPassword(value)
  \/ \E value \in FormPasswords : setDecryptPassword(value)
  \/ \E file \in NewFiles : handleImageSelect(file)
  \/ \E index \in 1..Len(form.newImageFiles) : handleRemoveNewImage(index)
  \/ \E index \in 1..Len(form.existingImages) : handleRemoveExistingImage(index)
  \/ \E index \in 1..Len(form.decryptedExistingImages) :
       handleRemoveDecryptedExistingImage(index)
  \/ handleDecryptForEdit
  \/ ImagesDecrypted
  \/ handleSubmit
  \/ closeForm

FormSpec == Init /\ [][FormNext]_vars

\* EditSpec: the edit form of an encrypted note, from its decrypt step or
\* from the detail modal, to its save
EncryptedProps == { props \in FormProps : props.isEditing /\ props.note.encrypted }

EditNext ==
  \/ \E props \in EncryptedProps : OpenForm(props)
  \/ \E value \in FormPasswords : setDecryptPassword(value)
  \/ handleDecryptForEdit
  \/ ImagesDecrypted
  \/ \E value \in FormContents : setContent(value)
  \/ \E checked \in BOOLEAN : setIsEncrypted(checked)
  \/ \E file \in NewFiles : handleImageSelect(file)
  \/ \E index \in 1..Len(form.newImageFiles) : handleRemoveNewImage(index)
  \/ \E index \in 1..Len(form.decryptedExistingImages) :
       handleRemoveDecryptedExistingImage(index)
  \/ handleSubmit
  \/ closeForm

EditSpec == Init /\ [][EditNext]_vars

\* ImportSpec: a form whose title is typed and whose content is typed and
\* imported
ImportNext ==
  \/ \E props \in FormProps : OpenForm(props)
  \/ \E value \in FormTitles : setTitle(value)
  \/ \E value \in FormContents : setContent(value)
  \/ \E file \in TextFiles : handleTextFileImport(file)
  \/ closeForm

ImportSpec == Init /\ [][ImportNext]_vars

\* DetailSpec: one note detail modal from mounting to its close
DetailNext ==
  \/ \E note \in {PlainNote, FlaggedNote, SecretNote} : OpenDetail(note)
  \/ \E value \in FormPasswords : setDetailPassword(value)
  \/ handleDecrypt
  \/ DecryptSettled
  \/ \E url \in 1..Len(Thumbnails(detail)) : selectImage(url)
  \/ \E open \in BOOLEAN : DialogOpenChange(open)
  \/ handleEscape
  \/ handleCloseClick
  \/ CloseButton
  \/ handleEditClick
  \/ handleDelete

DetailSpec == Init /\ [][DetailNext]_vars

\* AppSpec: callers sign in, the dashboard fetches, callers sign out
AppNext ==
  \/ \E principal \in Principals : login(principal)
  \/ \E key \in QueryKeys : fetch(key)
  \/ \E key \in QueryKeys : fetched(key)
  \/ handleLogout
  \/ LoggedOut

AppSpec == Init /\ [][AppNext]_vars

\* SearchSpec: notes arrive and the search box is typed into and cleared
SearchNext ==
  \/ \E notes \in NoteLists : notesLoaded(notes)
  \/ \E value \in SearchQueries : setSearchQuery(value)
  \/ handleClearSearch

SearchSpec == Init /\ [][SearchNext]_vars

(***************************************************************************)
(* Properties                                                              *)
(***************************************************************************)
EncryptCalls == { i \in 1..Len(calls) : calls[i].op \in EncryptOps }

\* the decrypt calls that have settled
Settled == { i \in 1..Len(calls) : calls[i].op \in DecryptOps /\ Finished(calls[i]) }

\* the encrypt call whose envelope decrypt call i was given
SourceOf(i) == calls[calls[i].src]

ErrorMessage(op) ==
  IF op = "decryptContent" THEN ContentErrorMessage ELSE ImageErrorMessage

\* the call threw the decryption error of its operation and returned nothing
FailedUniformly(c) ==
  c.status = "error" /\ c.error = ErrorMessage(c.op) /\ c.value = <<>>

\* C1: decryptContent of what encryptContent returned for (p, w), with the
\* same password w, succeeds and returns exactly p.
C1_TextRoundTrip ==
  \A i \in Settled :
    ( /\ calls[i].op = "decryptContent"
      /\ calls[i].mutation.kind = "none"
      /\ calls[i].password = SourceOf(i).password )
    => calls[i].status = "ok" /\ calls[i].value = SourceOf(i).input

\* C2: decryptImage of what encryptImage returned for (d, w), with the same
\* password w, succeeds and returns bytes identical to d.
C2_ImageRoundTrip ==
  \A i \in Settled :
    ( /\ calls[i].op = "decryptImage"
      /\ calls[i].mutation.kind = "none"
      /\ calls[i].password = SourceOf(i).password )
    => calls[i].status = "ok" /\ calls[i].value = SourceOf(i).input

C2_Witness ==
  \E i \in Settled :
    /\ calls[i].op = "decryptImage"
    /\ calls[i].mutation.kind = "none"
    /\ calls[i].password = SourceOf(i).password
    /\ calls[i].status = "ok"
    /\ calls[i].value = <<137, 80, 78>>

\* C3: decrypting an unmodified envelope with a password different from the
\* one it was encrypted with fails with the decryption error and returns no
\* value, for both decryptContent and decryptImage.
C3_WrongPasswordFails ==
  \A i \in Settled :
    ( /\ calls[i].mutation.kind = "none"
      /\ calls[i].password # SourceOf(i).password )
    => FailedUniformly(calls[i])

\* C4: after a change of any single bit at offset 28 or beyond of a valid
\* envelope, decrypt with the original password fails with the decryption
\* error and returns nothing.
C4_TamperDetected ==
  \A i \in Settled :
    ( /\ calls[i].mutation.kind = "flip"
      /\ calls[i].mutation.pos >= 29
      /\ calls[i].password = SourceOf(i).password )
    => FailedUniformly(calls[i])

C4_Witness ==
  \E i \in Settled :
    /\ calls[i].mutation.kind = "flip"
    /\ calls[i].mutation.pos = Len(SourceOf(i).combined)
    /\ calls[i].combined # SourceOf(i).combined
    /\ Len(SourceOf(i).data) > 0
    /\ calls[i].password = SourceOf(i).password
    /\ FailedUniformly(calls[i])

\* C5: for an envelope shorter than 28 bytes, the empty one included, and
\* any password, decryptContent and decryptImage fail with the decryption
\* error and return nothing.
C5_TruncatedFails ==
  \A i \in Settled :
    ( /\ calls[i].mutation.kind = "truncate"
      /\ Len(calls[i].combined) < 28 )
    => FailedUniformly(calls[i])

C5_Witness ==
  \E i \in Settled :
    /\ calls[i].mutation.kind = "truncate"
    /\ calls[i].input = <<>>
    /\ calls[i].cause = "OperationError"
    /\ FailedUniformly(calls[i])

\* the string has a character that is neither one of the 64 base64
\* characters nor the padding character
HasNonBase64Char(str) ==
  \E k \in 1..Len(str) : str[k] \notin Base64Alphabet \cup {PadChar}

\* the string has a character that atob does not accept anywhere
HasInvalidChar(str) ==
  \E k \in 1..Len(str) :
    str[k] \notin Base64Alphabet \cup {PadChar} \cup AsciiWhitespace

\* C6 (as stated): decryptContent of a string that contains a character
\* outside the base64 alphabet fails with the decryption error, for every
\* password.
C6_NonBase64CharFails ==
  \A i \in Settled :
    (calls[i].op = "decryptContent" /\ HasNonBase64Char(calls[i].input))
    => FailedUniformly(calls[i])

\* C6 (amended): decryptContent of a string that contains a character that
\* is neither a base64 character, nor '=', nor ASCII whitespace fails with
\* the decryption error, for every password.
C6_InvalidCharFails ==
  \A i \in Settled :
    (calls[i].op = "decryptContent" /\ HasInvalidChar(calls[i].input))
    => FailedUniformly(calls[i])

C6_Witness ==
  \E i \in Settled :
    /\ calls[i].op = "decryptContent"
    /\ calls[i].mutation.kind = "insert"
    /\ calls[i].mutation.arg = 33
    /\ calls[i].password = SourceOf(i).password
    /\ calls[i].cause = "InvalidCharacterError"
    /\ FailedUniformly(calls[i])

\* C7: a failed decrypt call shows its caller the fixed error of its
\* operation, whatever was thrown inside (malformed base64, or the cipher
\* rejecting a wrong key, a changed or a cut envelope).
C7_UniformFailure ==
  \A i \in Settled :
    calls[i].status = "error"
    => /\ calls[i].cause \in {"InvalidCharacterError", "OperationError"}
       /\ calls[i].error = ErrorMessage(calls[i].op)

C7_Witness ==
  \E i \in Settled :
    /\ calls[i].op = "decryptContent"
    /\ calls[i].status = "error"
    /\ calls[i].cause = "InvalidCharacterError"
    /\ calls[i].mutation.arg = 8364

\* C8: whenever decryptContent or decryptImage returns a value, the value is
\* the complete plaintext that was encrypted under the same password into
\* the envelope it was given.
C8_AuthenticOutput ==
  \A i \in Settled :
    calls[i].status = "ok"
    => /\ calls[i].password = SourceOf(i).password
       /\ calls[i].combined = SourceOf(i).combined
       /\ calls[i].value = SourceOf(i).input

\* the plaintext bytes of an encrypt call
PlainBytes(e) == IF e.op = "encryptContent" THEN Utf8Encode(e.input) ELSE e.input

\* C9: an envelope has the salt of its call at bytes [0,16), the iv of its
\* call at [16,28) and the AES-GCM output from 28 on, so it is 28 + plaintext
\* length + 16 bytes long (for encryptContent: after base64 decoding);
\* decrypt reads salt, iv and data back from those offsets.
C9_EnvelopeLayout ==
  /\ \A i \in EncryptCalls :
       Finished(calls[i]) =>
         LET e == calls[i]
             bytes == IF e.op = "encryptContent" THEN Atob(e.value).bytes ELSE e.value
         IN /\ Len(bytes) = 28 + Len(PlainBytes(e)) + 16
            /\ SubSeq(bytes, 1, 16) = e.salt
            /\ SubSeq(bytes, 17, 28) = e.iv
            /\ SubSeq(bytes, 29, Len(bytes)) = AesGcmEncrypt(e.key, e.iv, PlainBytes(e))
  /\ \A i \in 1..Len(calls) :
       ( /\ calls[i].op \in DecryptOps
         /\ calls[i].mutation.kind = "none" )
       => /\ calls[i].salt = SourceOf(i).salt
          /\ calls[i].iv = SourceOf(i).iv
          /\ calls[i].salt \o calls[i].iv \o calls[i].data = SourceOf(i).combined

C9_Witness ==
  \E i \in Settled :
    /\ calls[i].mutation.kind = "none"
    /\ SourceOf(i).op = "encryptContent"
    /\ Len(SourceOf(i).combined) = 28 + 4 + 16
    /\ Len(calls[i].data) = 4 + 16

\* C10: every encryptContent and encryptImage call, however the calls
\* interleave, draws a 16-byte salt and a 12-byte iv of its own from the
\* random source; no salt and no iv is in two envelopes, and two encryptions
\* never return equal envelopes, not even for the same plaintext and
\* password.
C10_FreshRandomness ==
  /\ Cardinality(drawn) = 2 * Cardinality(EncryptCalls)
  /\ \A i \in EncryptCalls :
       /\ \E seed \in drawn : calls[i].salt = RandomBytes(seed, 16)
       /\ \E seed \in drawn : calls[i].iv = RandomBytes(seed, 12)
  /\ \A i, j \in EncryptCalls :
       i # j =>
         /\ calls[i].salt # calls[j].salt
         /\ calls[i].iv # calls[j].iv
         /\ (Finished(calls[i]) /\ Finished(calls[j]))
              => /\ calls[i].value # calls[j].value
                 /\ SubSeq(calls[i].combined, 1, 16) # SubSeq(calls[j].combined, 1, 16)
                 /\ SubSeq(calls[i].combined, 17, 28) # SubSeq(calls[j].combined, 17, 28)

C10_Witness ==
  \E i, j \in EncryptCalls :
    /\ i # j
    /\ Finished(calls[i]) /\ Finished(calls[j])
    /\ calls[i].op = calls[j].op
    /\ calls[i].input = calls[j].input
    /\ calls[i].password = calls[j].password
    /\ calls[i].value # calls[j].value

\* C11: every encryptContent call, for a body of any length and any
\* password, and every encryptImage call, for any buffer, settles with an
\* envelope and never with an error.
C11_EncryptNeverFails ==
  \A i \in EncryptCalls :
    Finished(calls[i]) => calls[i].status = "ok" /\ calls[i].error = ""

\* the frame call c started from, rebuilt from its own arguments and its own
\* salt and iv
OwnStart(c) ==
  IF c.op \in EncryptOps
  THEN [NewCall(c.op, c.input, c.password) EXCEPT
          !.data = IF c.op = "encryptContent" THEN Utf8Encode(c.input)
                   ELSE toConcreteUint8Array(c.input),
          !.salt = c.salt, !.iv = c.iv]
  ELSE DecryptFrame(c.op, c.input, c.password, c.src, c.mutation)

Listed(caller) ==
  LET list == listNotesReply(caller, TRUE).value
  IN { list[i] : i \in 1..Len(list) }

\* C14: after a caller's createNote(data) or updateNote(id, data) returned,
\* and until the caller deletes the note, getNote(id) and listNotes of that
\* caller return the note with title, content, encrypted flag and imageRefs
\* equal to the data last written, whatever the content is; createNote and
\* updateNote themselves return the note with the data as given.
C14_VerbatimStorage ==
  /\ \A k \in DOMAIN written :
       LET got == getNoteReply(k[1], k[2], TRUE)
           listed == { n \in Listed(k[1]) : n.id = k[2] }
       IN /\ got.status = "ok"
          /\ got.value[1].id = k[2]
          /\ DataOf(got.value[1]) = written[k]
          /\ Cardinality(listed) = 1
          /\ \A n \in listed : DataOf(n) = written[k]
  /\ (reply.method \in {"createNote", "updateNote"} /\ reply.status = "ok")
       => DataOf(reply.value[1]) = reply.data

\* a note was overwritten with plain text under a set encryption flag and
\* is read back as written
C14_Witness ==
  /\ reply.method = "updateNote"
  /\ reply.status = "ok"
  /\ reply.data.encrypted
  /\ reply.data.content = <<104, 105>>
  /\ getNoteReply(reply.caller, reply.noteId, TRUE).value[1].content = <<104, 105>>
  /\ getNoteReply(reply.caller, reply.noteId, TRUE).value[1].encrypted
  /\ Len(getNoteReply(reply.caller, reply.noteId, TRUE).value[1].imageRefs) = 1

\* what caller a gets from listNotes and getNote are notes a created
ReadsOwnOnly ==
  \A a \in Principals :
    /\ \A n \in Listed(a) : n.id \in DOMAIN createdBy /\ createdBy[n.id] = a
    /\ \A id \in NoteIds :
         getNoteReply(a, id, TRUE).status = "ok"
           => id \in DOMAIN createdBy /\ createdBy[id] = a

\* C15: after any sequence of calls by any callers, listNotes and getNote of
\* a caller return only notes that caller created; no updateNote by another
\* caller has succeeded on a note, whatever id it was given, and a note its
\* creator has not deleted is still in the creator's map, and only there,
\* with the data the creator wrote last.
C15_Isolation ==
  /\ ReadsOwnOnly
  /\ \A id \in DOMAIN createdBy :
       LET b == createdBy[id]
       IN /\ \A a \in Principals \ {b} :
               /\ <<a, id>> \notin DOMAIN written
               /\ a \in DOMAIN notesMap => id \notin DOMAIN notesMap[a]
          /\ <<b, id>> \in DOMAIN written
               => /\ b \in DOMAIN notesMap
                  /\ id \in DOMAIN notesMap[b]
                  /\ DataOf(notesMap[b][id]) = written[<<b, id>>]

\* a caller that has notes was refused the update of another caller's note,
\* which is still there
C15_Witness ==
  /\ reply.method = "updateNote"
  /\ reply.status = "trap"
  /\ reply.error = "Note does not exist"
  /\ reply.caller \in DOMAIN notesMap
  /\ reply.noteId \in DOMAIN createdBy
  /\ createdBy[reply.noteId] # reply.caller
  /\ getNoteReply(createdBy[reply.noteId], reply.noteId, TRUE).status = "ok"

\* the methods of the actor that handle notes and profiles
BackendMethods ==
  {"getCallerUserProfile", "getUserProfile", "saveCallerUserProfile",
   "listNotes", "getNote", "createNote", "updateNote", "deleteNote"}

\* C21: a note or profile method called by a caller for whom hasPermission
\* returned false traps with a message that starts with 'Unauthorized',
\* returns no data, and leaves the notes map, the profiles map and
\* nextNoteId as they were when the call arrived.
C21_UnauthorizedTraps ==
  (reply.method \in BackendMethods /\ ~reply.permitted)
    => /\ reply.status = "trap"
       /\ SubSeq(reply.error, 1, 12) = "Unauthorized"
       /\ reply.value = <<>>
       /\ reply.before = Stored

\* a caller without the permission tried to save a profile while notes and
\* the profile of another caller were stored
C21_Witness ==
  /\ reply.method = "saveCallerUserProfile"
  /\ ~reply.permitted
  /\ reply.status = "trap"
  /\ reply.caller \notin DOMAIN userProfiles
  /\ DOMAIN userProfiles # {}
  /\ nextNoteId > 0
  /\ reply.caller \in DOMAIN notesMap

\* simple case folding of one code unit: capitals to small letters, and the
\* final sigma to the sigma
Fold(c) == IF c = 962 THEN 963 ELSE Lower(c)

FoldAll(str) == [i \in 1..Len(str) |-> Fold(str[i])]

\* text contains q when case is ignored
ContainsIgnoringCase(text, q) == includes(FoldAll(text), FoldAll(q))

\* C22: the cards are the whole list when the query is empty or only
\* whitespace; otherwise they are, in the order of the list, exactly the
\* notes whose title or stored content contains the trimmed query when case
\* is ignored.
C22_SearchFilters ==
  LET q == Trim(dashboard.searchQuery)
      wanted(note) ==
        ContainsIgnoringCase(note.title, q) \/ ContainsIgnoringCase(note.content, q)
  IN dashboard.filteredNotes =
       IF q = <<>> THEN dashboard.notes ELSE SelectSeq(dashboard.notes, wanted)

\* the name of the file has the extension .txt
IsTxtFile(file) == endsWith(file.name, ".txt") \/ endsWith(file.name, ".TXT")

\* C23: a text import of a file that is not a .txt file fails with 'Invalid
\* file type. Only .txt files are supported.', and an import that fails
\* leaves the content of the form as it was.
C23_ImportRejectsOthers ==
  form.toast.kind # "none"
    => /\ ~IsTxtFile(form.toast.file)
            => /\ form.toast.kind = "error"
               /\ form.toast.message = "Invalid file type. Only .txt files are supported."
       /\ form.toast.kind = "error" => form.toast.after = form.toast.before

\* the password an encrypted note was decrypted with before its edit: in the
\* detail modal, which hands it to the form, or in the form's decrypt step
DecryptedWith(f) ==
  IF f.decrypted.given THEN f.decrypted.password ELSE f.decryptCall.password

\* the saves of an encrypted note from its edit form, as an encrypted note
EncryptedEdits ==
  { i \in 1..Len(submitted) :
      /\ submitted[i].form.isEditing
      /\ submitted[i].form.note.encrypted
      /\ submitted[i].data.encrypted }

\* value is what a call of op under password returned
EncryptedUnder(op, value, password) ==
  \E k \in 1..Len(calls) :
    /\ calls[k].op = op
    /\ calls[k].status = "ok"
    /\ calls[k].value = value
    /\ calls[k].password = password

\* C24: the content and every image of an encrypted note saved from its edit
\* form are outputs of encryptContent and encryptImage under the password
\* the note was decrypted with: the form's content and each of its decrypted
\* and new images, all under that one password.
C24_OnePassword ==
  \A i \in EncryptedEdits :
    LET f == submitted[i].form
        data == submitted[i].data
    IN /\ f.password = DecryptedWith(f)
       /\ EncryptedUnder("encryptContent", data.content, DecryptedWith(f))
       /\ Len(data.imageRefs) = Len(f.decryptedExistingImages) + Len(f.newImageFiles)
       /\ \A j \in 1..Len(data.imageRefs) :
            EncryptedUnder("encryptImage", data.imageRefs[j], DecryptedWith(f))

\* an encrypted note decrypted in the form was saved with one of its images
\* and a new one
C24_Witness ==
  \E i \in EncryptedEdits :
    /\ ~submitted[i].form.decrypted.given
    /\ submitted[i].form.decryptCall.status = "ok"
    /\ Len(submitted[i].form.decryptedExistingImages) = 1
    /\ Len(submitted[i].form.newImageFiles) = 1
    /\ Len(submitted[i].data.imageRefs) = 2

\* the form as handleDecryptForEdit finds it: the password step of an
\* encrypted note, the stored ciphertext as content, no password
Locked(f) ==
  /\ ~f.isDecrypted
  /\ f.content = f.note.content
  /\ f.password = <<>> /\ f.confirmPassword = <<>>
  /\ f.decryptedExistingImages = <<>>

\* C25: once handleDecryptForEdit has ended with its error, the form is
\* still locked, with isDecrypted false and content and password as before
\* the attempt, and no error but the decrypt error is set; and a form that
\* handleDecryptForEdit has unlocked holds the decrypted text and every
\* image of the note, decrypted.
C25_DecryptAllOrNothing ==
  /\ (form.open /\ form.isEditing /\ form.note.encrypted /\ form.pc = "idle"
        /\ form.errors.decrypt \in {"Incorrect password", "Please enter a password"})
       => /\ Locked(form)
          /\ form.errors = [NoErrors EXCEPT !.decrypt = form.errors.decrypt]
  /\ (form.open /\ form.isEditing /\ form.note.encrypted /\ form.pc = "idle"
        /\ form.isDecrypted /\ ~form.decrypted.given)
       => /\ form.decryptCall.status = "ok"
          /\ Len(form.origin) = Cardinality(form.kept)

\* what the encryptContent / encryptImage calls made so far have returned
Outputs(op) ==
  { calls[j].value : j \in { k \in 1..Len(calls) :
                               calls[k].op = op /\ calls[k].status = "ok" } }

\* C13: whatever was done in the form before, a note that the form hands to
\* createNote or updateNote with encrypted = true has a content that
\* encryptContent returned and image blobs that encryptImage returned.
C13_FlagImpliesCiphertext ==
  \A i \in 1..Len(submitted) :
    submitted[i].data.encrypted
      => /\ submitted[i].data.content \in Outputs("encryptContent")
         /\ \A k \in 1..Len(submitted[i].data.imageRefs) :
              submitted[i].data.imageRefs[k] \in Outputs("encryptImage")

\* C16: the form of a stored encrypted note calls updateNote only after
\* decryptContent has returned the note's content under the entered
\* password (or the form was mounted with the decrypted content), and
\* while the form shows the error of a failed decrypt attempt it is still
\* on the password step.
C16_EditAfterDecrypt ==
  /\ \A i \in 1..Len(submitted) :
       LET f == submitted[i].form
       IN (submitted[i].method = "updateNote" /\ f.note.encrypted)
            => \/ f.decrypted.given
               \/ /\ f.decryptCall.op = "decryptContent"
                  /\ f.decryptCall.status = "ok"
                  /\ f.decryptCall.input = f.note.content
                  /\ f.decryptCall.password = f.decryptPassword
  /\ (form.open /\ form.errors.decrypt = "Incorrect password")
       => showDecryptStep(form)

\* the elements of a set of numbers in increasing order
RECURSIVE Ascending(_)
Ascending(set) ==
  IF set = {} THEN <<>>
  ELSE <<Smallest(set)>> \o Ascending(set \ {Smallest(set)})

\* the images a save of form f has to store: the images of the note that
\* the user did not remove, then the added files
ImagesToStore(f) ==
  LET kept == Ascending(f.kept)
  IN [k \in 1..Len(kept) |->
        decryptImage(f.note.imageRefs[kept[k]], StoredPassword).value]
     \o f.newImageFiles

\* C18: the imageRefs that the form of a stored encrypted note hands to
\* updateNote are, in this order, one encryptImage output for every image
\* of the note that the user did not remove and one for every added file.
C18_ImagesReencrypted ==
  \A i \in 1..Len(submitted) :
    LET f == submitted[i].form
        refs == submitted[i].data.imageRefs
        expected == ImagesToStore(f)
    IN (submitted[i].method = "updateNote" /\ f.note.encrypted)
         => /\ Len(refs) = Len(expected)
            /\ \A k \in 1..Len(refs) :
                 \E j \in 1..Len(calls) :
                   /\ calls[j].op = "encryptImage"
                   /\ calls[j].status = "ok"
                   /\ calls[j].input = expected[k]
                   /\ calls[j].value = refs[k]

\* the decrypted text and every decrypted image of the note are in the state
FullyDecrypted(d) ==
  /\ AllDecrypt(d.note, d.decryptPassword)
  /\ d.decryptedContent = Some(decryptContent(d.note.content, d.decryptPassword).value)
  /\ d.decryptedImages =
       Some([i \in 1..Len(d.note.imageRefs) |->
               decryptImage(d.note.imageRefs[i], d.decryptPassword).value])
  /\ Len(d.decryptedImageUrls) = Len(d.note.imageRefs)

\* nothing decrypted is in the state: no text, no image bytes, no image URL
Cleared(d) ==
  /\ d.decryptedContent = Null
  /\ d.decryptedImages = Null
  /\ d.decryptedImageUrls = <<>>

\* C17: the detail modal of an encrypted note shows no image and no text
\* before a handleDecrypt attempt has succeeded; an attempt succeeds, and
\* then shows the text and all images, only if the text and every image
\* decrypted; after an attempt in which any of them failed, text, image
\* bytes and image URLs are all cleared and an error is shown.
C17_AllOrNothing ==
  detail.note.encrypted
    => /\ detail.outcome = "ok"
            => FullyDecrypted(detail) /\ detail.decryptError = ""
       /\ detail.outcome # "ok"
            => Cleared(detail) /\ Thumbnails(detail) = <<>>
       /\ detail.outcome = "failed" => detail.decryptError # ""

\* the text decrypted under the entered password, an image did not arrive,
\* and nothing is shown but the error
C17_Witness ==
  /\ detail.note = SecretNote
  /\ detail.outcome = "failed"
  /\ decryptContent(detail.note.content, detail.decryptPassword).status = "ok"
  /\ Cleared(detail)
  /\ detail.decryptError = "Incorrect password"

C20_LogoutClears ==
  /\ (session.identity = NoIdentity /\ session.pc = "idle")
       => session.cache = [k \in {} |-> ""] /\ session.fetching = {}
  /\ \A key \in DOMAIN session.cache : session.cache[key] = session.identity

\* a sign-out has removed the notes and the profile from the cache
C20_Witness ==
  /\ session.identity = NoIdentity
  /\ session.pc = "idle"
  /\ {"notes", "currentUserProfile"} \subseteq session.removed
  /\ DOMAIN session.cache = {}

====
